---------------------------- MODULE Spec2Model ----------------------------
(***************************************************************************)
(* Model of the TaaSLMM workflow engine:                                   *)
(*   - ToolRegistry           (mcp_framework/server/tool_registry.py)      *)
(*   - TaskRegistry and its schema composition                             *)
(*                            (taas_server/tasks/task_registry.py)         *)
(*   - WorkflowExecutor       (mcp_framework/server/workflow_executor.py)  *)
(*   - the SSE event stream   (mcp_framework/server/mcp_gateway.py)        *)
(*   - StateManager recovery  (taas_server/core/state_manager.py)          *)
(*   - CancelTask             (taas_server/services/task_service.py)       *)
(*                                                                         *)
(* The specifications share the variables:                                 *)
(*   SpecRegistry    register / lookup on the tool registry                *)
(*   SpecConcurrent  register and get_tool called from several threads     *)
(*   SpecSchema      get_pipeline_schema on the task registry              *)
(*   SpecCombined    get_combined_input_schema on the example tasks        *)
(*   SpecDeps        get_combined_input_schema on arbitrary dependencies   *)
(*   Spec            one run of execute_workflow over a submitted dag      *)
(*   SpecWiring      as Spec, with dags that carry input_mappings          *)
(*   SpecTools       as Spec, with nodes naming unregistered tools         *)
(*   SpecDuplicates  as Spec, with node lists repeating an id              *)
(*   SpecCancel      as Spec, with CancelTask requests                     *)
(*   SpecRecovery    TaasServer.start with recover_from_last_session       *)
(*   SpecSort        _topological_sort on its own                          *)
(*   SpecSingleton   threads obtaining the registry singleton              *)
(*   SpecStream      as Spec, with a client that stops reading the stream  *)
(* Python dicts whose order is observable are sequences of pairs; other    *)
(* dicts are functions.  None is the string "None".                        *)
(***************************************************************************)
EXTENDS Integers, Sequences, FiniteSets, TLC

\* Longest edge list of a submitted dag.
MaxEdges == 3

\* Longest task_names list handed to get_pipeline_schema.
MaxPipelineLen == 2

\* Number of threads calling ToolRegistry.register concurrently.
NumThreads == 3

\* Number of get_tool calls made while they run.
MaxLookups == 2

\* Longest edge list of a dag handed to _topological_sort on its own.
MaxSortEdges == 4

\* Longest dependency list of a task class outside the examples.
MaxDeps == 2

\* Number of threads that obtain the tool registry and register a tool.
NumCallers == 2

\* collect_schemas raises once its depth exceeds this.
MaxDepth == 10

None == "None"

VARIABLES
    tools,            \* ToolRegistry._tools: sequence of tool classes, insertion order
    regCall,          \* the last register call: class, outcome, registry before it
    firstReg,         \* name -> class of the first accepted registration
    tasks,            \* TaskRegistry._tasks: sequence of task names, insertion order
    schemaCall,       \* the last get_pipeline_schema call: arguments and outcome
    dag,              \* the submitted workflow: nodes and edges
    workflows,        \* table workflow_executions: id -> row
    tool_executions,  \* table tool_executions: node -> row
    events,           \* the event stream delivered to the caller, in order
    pc,               \* position of execute_streaming / event_stream
    batches,          \* result of _topological_sort
    batch_idx,        \* index of the batch being executed
    task,             \* per node of the current batch: pending | running | done
    batch_results,    \* what asyncio.gather collects: node -> result or exception
    results,          \* in-memory result map: node -> outputs
    completed_nodes,
    total_nodes,
    pos,              \* index into zip(batch, batch_results)
    calls,            \* the tool invocations made: node -> inputs it was called with
    error,            \* the exception caught by execute_streaming's handler
    db_tasks,         \* table tasks: id -> row (status, error_message)
    db_pipelines,     \* table pipelines: id -> row (status, task_ids)
    _active_tasks,    \* StateManager._active_tasks: id -> cached info
    _active_pipelines,\* StateManager._active_pipelines: id -> cached info
    server,           \* position of TaasServer.start
    last_session,     \* the tables as the previous process left them
    _lock_tools,      \* ToolRegistry._lock_tools: 0 when free, else the holder
    threads,          \* per caller of register: its class, position and outcome
    reader,           \* the caller of get_tool: position and the name looked up
    observed,         \* what the get_tool calls returned, in order
    cancel,           \* the CancelTask request made, and where the workflow then stood
    combinedCall,     \* the last get_combined_input_schema call: arguments and outcome
    _tasks,           \* TaskRegistry._tasks holding classes other than the example tasks
    _instance,        \* ToolRegistry._instance: 0 for None, else an index into objects
    _registry,        \* the module global _registry: 0 for None, else an index into objects
    objects,          \* the ToolRegistry objects created so far, with their attributes
    _lock,            \* ToolRegistry._lock (class level): 0 when free, else the holder
    locks,            \* the Lock objects made by __init__: holder of each, 0 when free
    callers           \* per thread obtaining the registry: entry point, position, outcome

regVars == <<tools, regCall, firstReg>>
schemaVars == <<tasks, schemaCall>>
wfVars == <<dag, workflows, tool_executions, events, pc, batches, batch_idx, task,
            batch_results, results, completed_nodes, total_nodes, pos, calls, error>>
recVars == <<db_tasks, db_pipelines, _active_tasks, _active_pipelines, server, last_session>>
concVars == <<_lock_tools, threads, reader, observed>>
rpcVars == <<cancel, combinedCall, _tasks>>
initVars == <<_instance, _registry, objects, _lock, locks, callers>>
extVars == <<recVars, concVars, rpcVars, initVars>>
vars == <<regVars, schemaVars, wfVars, extVars>>

\* Python dict helpers on functions.
EmptyDict == [k \in {} |-> None]

DictSet(d, k, v) == [x \in (DOMAIN d) \cup {k} |-> IF x = k THEN v ELSE d[x]]

Range(s) == {s[i] : i \in DOMAIN s}

\* Sequences over S of length at most n.
SeqsUpTo(S, n) == UNION {[1..k -> S] : k \in 0..n}

-----------------------------------------------------------------------------
(***************************************************************************)
(* ToolRegistry                                                            *)
(***************************************************************************)
ToolNames == {"load_dataset", "load_config", "finetune"}

ToolCategory == {"UTILITY", "TRAINING", "ADMIN"}

\* Two distinct classes may carry the same name: impl tells them apart.
ToolClasses == [name : ToolNames, category : ToolCategory, impl : {"A", "B"},
                isBaseTool : {TRUE}]

\* A class that does not inherit from BaseTool.
NotATool == [name |-> "load_config", category |-> "UTILITY", impl |-> "A", isBaseTool |-> FALSE]

RegistryNames(reg) == [i \in DOMAIN reg |-> reg[i].name]

\* name in self._tools
IsRegistered(reg, name) == \E i \in DOMAIN reg : reg[i].name = name

\* self._tools.get(name): an Optional is <<>> for None and <<cls>> for a class
get_tool(name) ==
    IF IsRegistered(tools, name)
    THEN <<tools[CHOOSE i \in DOMAIN tools : tools[i].name = name]>>
    ELSE <<>>

\* list(self._tools.keys()), or the names of one category
list_tools(category) ==
    IF category = None
    THEN RegistryNames(tools)
    ELSE RegistryNames(SelectSeq(tools, LAMBDA c : c.category = category))

\* A register that overwrites instead of rejecting.
RegisterOverwrite(reg, cls) ==
    IF ~cls.isBaseTool
    THEN [ok |-> FALSE, reg |-> reg, error |-> "must inherit from BaseTool"]
    ELSE IF IsRegistered(reg, cls.name)
    THEN [ok |-> FALSE,
          reg |-> [i \in DOMAIN reg |-> IF reg[i].name = cls.name THEN cls ELSE reg[i]],
          error |-> "already registered"]
    ELSE [ok |-> TRUE, reg |-> Append(reg, cls), error |-> None]

\* The effect of register(tool_class) on the tool map, and its outcome.
RegisterEffect(reg, cls) ==
    IF ~cls.isBaseTool
    THEN [ok |-> FALSE, reg |-> reg, error |-> "must inherit from BaseTool"]
    ELSE IF IsRegistered(reg, cls.name)
    THEN [ok |-> FALSE, reg |-> reg, error |-> "already registered"]
    ELSE [ok |-> TRUE, reg |-> Append(reg, cls), error |-> None]

register(cls) ==
    LET r == RegisterEffect(tools, cls) IN
    /\ tools' = r.reg
    /\ regCall' = [called |-> TRUE, cls |-> cls, ok |-> r.ok, error |-> r.error,
                   before |-> tools]
    /\ firstReg' = IF r.ok THEN DictSet(firstReg, cls.name, cls) ELSE firstReg
    /\ UNCHANGED <<schemaVars, wfVars, extVars>>

NoCall == [called |-> FALSE, cls |-> NotATool, ok |-> TRUE, error |-> None,
           before |-> <<>>]

-----------------------------------------------------------------------------
(***************************************************************************)
(* TaskRegistry and get_pipeline_schema.  The task classes are the example *)
(* tasks of taas_server/tasks/examples; a property's schema is identified  *)
(* by the task that declares it.                                           *)
(***************************************************************************)
LoadConfigTask ==
    [name |-> "load_config",
     properties |-> <<"config_path", "config_dict">>,
     required |-> <<>>,
     output_mappings |-> <<<<"config_id", "config_id">>, <<"config", "config">>>>,
     dependencies |-> <<>>]

CreateConfigTask ==
    [name |-> "create_config",
     properties |-> <<"config_type", "parameters", "output_path">>,
     required |-> <<"config_type", "parameters">>,
     output_mappings |-> <<>>,
     dependencies |-> <<>>]

LoadDatasetTask ==
    [name |-> "load_dataset",
     properties |-> <<"dataset_path", "split">>,
     required |-> <<"dataset_path">>,
     output_mappings |-> <<<<"dataset_id", "dataset_id">>,
                           <<"dataset_path", "dataset_path">>>>,
     dependencies |-> <<>>]

LoadLoRATask ==
    [name |-> "load_lora",
     properties |-> <<"lora_path", "base_model">>,
     required |-> <<"lora_path">>,
     output_mappings |-> <<<<"lora_id", "lora_id">>, <<"lora_path", "lora_path">>>>,
     dependencies |-> <<>>]

CreateEnvTask ==
    [name |-> "create_env",
     properties |-> <<"python_version", "requirements">>,
     required |-> <<>>,
     output_mappings |-> <<<<"env_id", "env_id">>>>,
     dependencies |-> <<>>]

FinetuneTask ==
    [name |-> "finetune",
     properties |-> <<"model_name", "dataset_id", "config_id", "lora_id", "epochs",
                      "learning_rate">>,
     required |-> <<"model_name", "dataset_id", "config_id">>,
     output_mappings |-> <<<<"model_id", "model_id">>, <<"model_path", "model_path">>>>,
     dependencies |-> <<"load_dataset", "load_config">>]

PTQTask ==
    [name |-> "ptq",
     properties |-> <<"model_id", "quantization_bits", "calibration_dataset_id">>,
     required |-> <<"model_id">>,
     output_mappings |-> <<<<"quantized_model_id", "model_id">>>>,
     dependencies |-> <<>>]

EvaluateTask ==
    [name |-> "evaluate",
     properties |-> <<"model_id", "dataset_id", "metrics">>,
     required |-> <<"model_id", "dataset_id">>,
     output_mappings |-> <<>>,
     dependencies |-> <<>>]

\* The order in which importing taas_server.tasks.examples registers the tasks.
ImportOrder == <<LoadConfigTask, CreateConfigTask, LoadDatasetTask, LoadLoRATask,
                 CreateEnvTask, FinetuneTask, PTQTask, EvaluateTask>>

TaskNames == {ImportOrder[i].name : i \in DOMAIN ImportOrder}

\* Names a caller may pass: the example tasks and one that no module defines.
CallerTaskNames == TaskNames \cup {"no_such_task"}

TaskClass(name) == ImportOrder[CHOOSE i \in DOMAIN ImportOrder : ImportOrder[i].name = name]

\* self._tasks.get(task_name): <<>> for None, <<cls>> for a class
get_task(task_name) ==
    IF task_name \in Range(tasks) THEN <<TaskClass(task_name)>> ELSE <<>>

\* output_mappings.values()
MappingValues(cls) == {cls.output_mappings[i][2] : i \in DOMAIN cls.output_mappings}

\* A first pass that forgets the last task of the pipeline.
AllOutputsButLast(task_names) ==
    UNION {MappingValues(get_task(task_names[i])[1]) : i \in 1..(Len(task_names) - 1)}

\* First pass of get_pipeline_schema: all_outputs, the outputs of all tasks.
all_outputs(task_names) ==
    UNION {MappingValues(get_task(task_names[i])[1]) : i \in DOMAIN task_names}

InSeq(x, s) == \E i \in DOMAIN s : s[i] = x

PropNames(props) == {props[i].name : i \in DOMAIN props}

\* The inner loop of the second pass over one task's properties, from index j.
RECURSIVE CollectProps(_, _, _, _)
CollectProps(cls, j, outs, acc) ==
    IF j > Len(cls.properties) THEN acc
    ELSE LET prop_name == cls.properties[j]
             take == prop_name \notin outs /\ prop_name \notin PropNames(acc.properties)
             acc1 == IF ~take THEN acc
                     ELSE [properties |-> Append(acc.properties,
                                                 [name |-> prop_name, schema |-> cls.name]),
                           required |-> IF InSeq(prop_name, cls.required)
                                        THEN Append(acc.required, prop_name)
                                        ELSE acc.required]
         IN CollectProps(cls, j + 1, outs, acc1)

\* The second pass over the tasks of the pipeline, from index i.
RECURSIVE SecondPass(_, _, _, _)
SecondPass(task_names, i, outs, acc) ==
    IF i > Len(task_names) THEN acc
    ELSE SecondPass(task_names, i + 1, outs,
                    CollectProps(get_task(task_names[i])[1], 1, outs, acc))

\* get_pipeline_schema(task_names): the schema, or the ValueError of the first pass.
get_pipeline_schema(task_names) ==
    IF \E i \in DOMAIN task_names : get_task(task_names[i]) = <<>>
    THEN [ok |-> FALSE, error |-> "not found", properties |-> <<>>, required |-> <<>>]
    ELSE LET acc == SecondPass(task_names, 1, all_outputs(task_names),
                               [properties |-> <<>>, required |-> <<>>])
         IN [ok |-> TRUE, error |-> None,
             properties |-> acc.properties, required |-> acc.required]

NoSchemaCall == [task_names |-> <<>>, called |-> FALSE,
                 result |-> [ok |-> FALSE, error |-> None,
                             properties |-> <<>>, required |-> <<>>]]

\* TaskRegistry.register, for the next class the examples package defines.
register_task ==
    /\ Len(tasks) < Len(ImportOrder)
    /\ tasks' = Append(tasks, ImportOrder[Len(tasks) + 1].name)
    /\ UNCHANGED <<schemaCall, regVars, wfVars, extVars>>

\* TaskRegistry.clear
clear ==
    /\ tasks # <<>>
    /\ tasks' = <<>>
    /\ UNCHANGED <<schemaCall, regVars, wfVars, extVars>>

call_get_pipeline_schema(task_names) ==
    /\ schemaCall' = [task_names |-> task_names, called |-> TRUE,
                      result |-> get_pipeline_schema(task_names)]
    /\ UNCHANGED <<tasks, regVars, wfVars, extVars>>

-----------------------------------------------------------------------------
(***************************************************************************)
(* WorkflowExecutor._topological_sort                                      *)
(***************************************************************************)
\* The node ids a caller declares, in the order the model lists them.
DeclOrder == <<"a", "b", "c">>

NodeIds == Range(DeclOrder)

\* Keys of the dict {node["id"]: node for node in dag["nodes"]}, insertion order.
RECURSIVE DictKeys(_, _, _)
DictKeys(nodes, i, acc) ==
    IF i > Len(nodes) THEN acc
    ELSE DictKeys(nodes, i + 1,
                  IF InSeq(nodes[i].id, acc) THEN acc ELSE Append(acc, nodes[i].id))

\* adjacency[node_id] after the edge loop
Adjacency(edges, node_id) ==
    LET from_n == SelectSeq(edges, LAMBDA e : e[1] = node_id)
    IN [i \in DOMAIN from_n |-> from_n[i][2]]

\* in_degree after the edge loop
InDegree(edges, ids) ==
    [n \in ids |-> Cardinality({i \in DOMAIN edges : edges[i][2] = n})]

\* A neighbor loop that releases a node as soon as one predecessor is done.
RECURSIVE VisitNeighborsEager(_, _, _)
VisitNeighborsEager(nbrs, j, st) ==
    IF j > Len(nbrs) THEN st
    ELSE LET neighbor == nbrs[j]
             deg == [st.in_degree EXCEPT ![neighbor] = 0]
         IN VisitNeighborsEager(nbrs, j + 1,
                [in_degree |-> deg,
                 next_batch |-> IF InSeq(neighbor, st.next_batch)
                                THEN st.next_batch
                                ELSE Append(st.next_batch, neighbor)])

\* for neighbor in adjacency[node_id]: decrement, collect the ones that reach 0
RECURSIVE VisitNeighbors(_, _, _)
VisitNeighbors(nbrs, j, st) ==
    IF j > Len(nbrs) THEN st
    ELSE LET neighbor == nbrs[j]
             deg == [st.in_degree EXCEPT ![neighbor] = @ - 1]
         IN VisitNeighbors(nbrs, j + 1,
                [in_degree |-> deg,
                 next_batch |-> IF deg[neighbor] = 0
                                THEN Append(st.next_batch, neighbor)
                                ELSE st.next_batch])

\* for node_id in current_batch
RECURSIVE VisitBatch(_, _, _, _)
VisitBatch(edges, current_batch, i, st) ==
    IF i > Len(current_batch) THEN st
    ELSE VisitBatch(edges, current_batch, i + 1,
                    VisitNeighbors(Adjacency(edges, current_batch[i]), 1, st))

\* while current_batch
RECURSIVE KahnLoop(_, _, _, _)
KahnLoop(edges, current_batch, in_degree, acc) ==
    IF current_batch = <<>> THEN [batches |-> acc, in_degree |-> in_degree]
    ELSE LET st == VisitBatch(edges, current_batch, 1,
                              [in_degree |-> in_degree, next_batch |-> <<>>])
         IN KahnLoop(edges, st.next_batch, st.in_degree, Append(acc, current_batch))

RECURSIVE SumValues(_, _)
SumValues(f, S) ==
    IF S = {} THEN 0
    ELSE LET x == CHOOSE y \in S : TRUE IN f[x] + SumValues(f, S \ {x})

\* A sort that never looks at the edges: every node lands in the first batch.
SortIgnoringEdges(d) ==
    LET ids == DictKeys(d.nodes, 1, <<>>)
    IN [ok |-> TRUE, error |-> None, batches |-> IF ids = <<>> THEN <<>> ELSE <<ids>>]

\* _topological_sort(dag): the batches, or the exception it raises.
_topological_sort(d) ==
    LET ids == DictKeys(d.nodes, 1, <<>>)
        idset == Range(ids)
    IN IF \E i \in DOMAIN d.edges : d.edges[i][1] \notin idset \/ d.edges[i][2] \notin idset
       THEN [ok |-> FALSE, error |-> "KeyError", batches |-> <<>>]
       ELSE LET deg0 == InDegree(d.edges, idset)
                first == SelectSeq(ids, LAMBDA n : deg0[n] = 0)
                k == KahnLoop(d.edges, first, deg0, <<>>)
            IN IF SumValues(k.in_degree, idset) > 0
               THEN [ok |-> FALSE, error |-> "Workflow DAG contains cycles",
                     batches |-> <<>>]
               ELSE [ok |-> TRUE, error |-> None, batches |-> k.batches]

-----------------------------------------------------------------------------
(***************************************************************************)
(* WorkflowExecutor.execute_streaming, _execute_node and the gateway's     *)
(* event_stream.  A step ends at each database commit, each yield and each *)
(* await.                                                                   *)
(***************************************************************************)
\* The one workflow_id of the run (uuid4 in the code).
WorkflowId == "w1"

\* The registry the executor reads: the tools present when the gateway starts.
GatewayTools ==
    <<[name |-> "load_dataset", category |-> "UTILITY", impl |-> "A", isBaseTool |-> TRUE],
      [name |-> "load_config", category |-> "UTILITY", impl |-> "A", isBaseTool |-> TRUE]>>

\* What a tool returns is opaque to the engine.  As load_dataset does with its
\* uuid, the invocation made for node n returns an id of its own: the model's id
\* names n, so that the outputs of different producers differ.
ToolOutput(n) == [dataset_id |-> <<"dataset", n>>]

Event(type, node_id, data) == [type |-> type, node_id |-> node_id, data |-> data]

\* Index of the node definition next(n for n in dag["nodes"] if n["id"] == node_id)
NodeIndex(d, node_id) ==
    CHOOSE i \in DOMAIN d.nodes :
        /\ d.nodes[i].id = node_id
        /\ \A j \in 1..(i - 1) : d.nodes[j].id # node_id

\* The loop over input_mappings.items() of _execute_node, from index j:
\* source_key is the list of its "."-separated parts.
RECURSIVE ResolveInputs(_, _, _, _)
ResolveInputs(inputs, input_mappings, j, intermediate_results) ==
    IF j > Len(input_mappings) THEN inputs
    ELSE LET source_key == input_mappings[j][1]
             target_key == input_mappings[j][2]
             hit == /\ Len(source_key) > 1
                    /\ source_key[1] \in DOMAIN intermediate_results
                    /\ source_key[2] \in DOMAIN intermediate_results[source_key[1]]
         IN ResolveInputs(
                IF hit
                THEN DictSet(inputs, target_key, intermediate_results[source_key[1]][source_key[2]])
                ELSE inputs,
                input_mappings, j + 1, intermediate_results)

CurrentBatch == batches[batch_idx]

SetRow(table, key, row) == DictSet(table, key, row)

\* with session: session.add(WorkflowExecution(status="RUNNING", ...))
execute_streaming_create ==
    /\ pc = "idle"
    /\ workflows' = SetRow(workflows, WorkflowId,
                           [workflow_dag |-> dag, status |-> "RUNNING", error_message |-> None,
                            results |-> EmptyDict, progress |-> 0])
    /\ pc' = "created"
    /\ UNCHANGED <<extVars, regVars, schemaVars, dag, tool_executions, events, batches, batch_idx, task, batch_results,
                   results, completed_nodes, total_nodes, pos, calls, error>>

RECURSIVE SumLen(_, _)
SumLen(bs, i) == IF i > Len(bs) THEN 0 ELSE Len(bs[i]) + SumLen(bs, i + 1)

\* A plan step that forgets to yield start.
PlanWithoutStart ==
    /\ pc = "created"
    /\ LET r == _topological_sort(dag) IN
       IF r.ok
       THEN /\ batches' = r.batches
            /\ total_nodes' = SumLen(r.batches, 1)
            /\ completed_nodes' = 0
            /\ results' = EmptyDict
            /\ batch_idx' = 1
            /\ pc' = "next_batch"
            /\ UNCHANGED <<error, events>>
       ELSE /\ error' = r.error
            /\ pc' = "except"
            /\ UNCHANGED <<batches, total_nodes, completed_nodes, events, results, batch_idx>>
    /\ UNCHANGED <<extVars, regVars, schemaVars, dag, workflows, tool_executions, task,
                   batch_results, pos, calls>>

\* batches = self._topological_sort(dag); yield start  -- or the jump to the handler
execute_streaming_plan ==
    /\ pc = "created"
    /\ LET r == _topological_sort(dag) IN
       IF r.ok
       THEN /\ batches' = r.batches
            /\ total_nodes' = SumLen(r.batches, 1)
            /\ completed_nodes' = 0
            /\ events' = Append(events, Event("start", None, SumLen(r.batches, 1)))
            /\ results' = EmptyDict
            /\ batch_idx' = 1
            /\ pc' = "next_batch"
            /\ UNCHANGED error
       ELSE /\ error' = r.error
            /\ pc' = "except"
            /\ UNCHANGED <<batches, total_nodes, completed_nodes, events, results, batch_idx>>
    /\ UNCHANGED <<extVars, regVars, schemaVars, dag, workflows, tool_executions, task, batch_results, pos, calls>>

\* for batch in batches: tasks = [...]; await asyncio.gather(*tasks, ...)
gather_start ==
    /\ pc = "next_batch"
    /\ batch_idx <= Len(batches)
    /\ task' = [n \in Range(CurrentBatch) |-> "pending"]
    /\ batch_results' = EmptyDict
    /\ pc' = "gather"
    /\ UNCHANGED <<extVars, regVars, schemaVars, dag, workflows, tool_executions, events, batches, batch_idx, results,
                   completed_nodes, total_nodes, pos, calls, error>>

\* _execute_node up to its await: resolve the inputs (in place, in the dag's own
\* dict), insert the RUNNING row, look the tool up and call it.  The tasks of a
\* gather start in list order.
_execute_node_start(i) ==
    /\ pc = "gather"
    /\ i \in DOMAIN CurrentBatch
    /\ task[CurrentBatch[i]] = "pending"
    /\ \A j \in 1..(i - 1) : task[CurrentBatch[j]] # "pending"
    /\ LET node_id == CurrentBatch[i]
           k == NodeIndex(dag, node_id)
           node == dag.nodes[k]
           inputs == ResolveInputs(node.inputs, node.input_mappings, 1, results)
       IN /\ dag' = [dag EXCEPT !.nodes[k].inputs = inputs]
          /\ tool_executions' = SetRow(tool_executions, node_id,
                 [workflow_id |-> WorkflowId, tool_name |-> node.tool, inputs |-> inputs,
                  status |-> "RUNNING", outputs |-> EmptyDict, error_message |-> None])
          /\ calls' = IF get_tool(node.tool) = <<>> THEN calls
                      ELSE DictSet(calls, node_id, inputs)
          /\ task' = [task EXCEPT ![node_id] = "running"]
    /\ UNCHANGED <<extVars, regVars, schemaVars, workflows, events, pc, batches, batch_idx, batch_results, results,
                   completed_nodes, total_nodes, pos, error>>

\* A return that hands the result to gather without the COMPLETED commit.
ReturnWithoutCommit(n) ==
    /\ pc = "gather"
    /\ n \in DOMAIN task
    /\ task[n] = "running"
    /\ n \in DOMAIN calls
    /\ batch_results' = DictSet(batch_results, n, [exc |-> FALSE, value |-> ToolOutput(n)])
    /\ task' = [task EXCEPT ![n] = "done"]
    /\ UNCHANGED <<extVars, regVars, schemaVars, dag, workflows, tool_executions, events, pc, batches, batch_idx,
                   results, completed_nodes, total_nodes, pos, calls, error>>

\* The tool returned: the row becomes COMPLETED with its outputs.
_execute_node_return(n) ==
    /\ pc = "gather"
    /\ n \in DOMAIN task
    /\ task[n] = "running"
    /\ n \in DOMAIN calls
    /\ tool_executions' = [tool_executions EXCEPT ![n].status = "COMPLETED",
                                                  ![n].outputs = ToolOutput(n)]
    /\ batch_results' = DictSet(batch_results, n, [exc |-> FALSE, value |-> ToolOutput(n)])
    /\ task' = [task EXCEPT ![n] = "done"]
    /\ UNCHANGED <<extVars, regVars, schemaVars, dag, workflows, events, pc, batches, batch_idx, results,
                   completed_nodes, total_nodes, pos, calls, error>>

\* An except branch that also runs after the COMPLETED commit.
RaiseAfterReturn(n) ==
    /\ pc = "gather"
    /\ n \in DOMAIN task
    /\ task[n] \in {"running", "done"}
    /\ tool_executions[n].status # "FAILED"
    /\ LET msg == IF n \in DOMAIN calls THEN "tool error" ELSE "Tool not found" IN
       /\ tool_executions' = [tool_executions EXCEPT ![n].status = "FAILED",
                                                     ![n].error_message = msg]
       /\ batch_results' = DictSet(batch_results, n, [exc |-> TRUE, value |-> msg])
    /\ task' = [task EXCEPT ![n] = "done"]
    /\ UNCHANGED <<extVars, regVars, schemaVars, dag, workflows, events, pc, batches, batch_idx, results,
                   completed_nodes, total_nodes, pos, calls, error>>

\* The tool raised, or was not found: the row becomes FAILED, the exception is
\* what gather(return_exceptions=True) collects.
_execute_node_raise(n) ==
    /\ pc = "gather"
    /\ n \in DOMAIN task
    /\ task[n] = "running"
    /\ LET msg == IF n \in DOMAIN calls THEN "tool error" ELSE "Tool not found" IN
       /\ tool_executions' = [tool_executions EXCEPT ![n].status = "FAILED",
                                                     ![n].error_message = msg]
       /\ batch_results' = DictSet(batch_results, n, [exc |-> TRUE, value |-> msg])
    /\ task' = [task EXCEPT ![n] = "done"]
    /\ UNCHANGED <<extVars, regVars, schemaVars, dag, workflows, events, pc, batches, batch_idx, results,
                   completed_nodes, total_nodes, pos, calls, error>>

\* gather returns when every task of the batch is done.
gather_done ==
    /\ pc = "gather"
    /\ \A n \in DOMAIN task : task[n] = "done"
    /\ pc' = "zip"
    /\ pos' = 1
    /\ UNCHANGED <<extVars, regVars, schemaVars, dag, workflows, tool_executions, events, batches, batch_idx, task,
                   batch_results, results, completed_nodes, total_nodes, calls, error>>

\* A failure branch without its return: the loop goes on after node_failed.
YieldNodeFailedNoReturn ==
    /\ pc = "zip"
    /\ batch_results[CurrentBatch[pos]].exc
    /\ events' = Append(events, Event("node_failed", CurrentBatch[pos],
                                      batch_results[CurrentBatch[pos]].value))
    /\ error' = batch_results[CurrentBatch[pos]].value
    /\ IF pos < Len(CurrentBatch)
       THEN pos' = pos + 1 /\ UNCHANGED <<pc, batch_idx>>
       ELSE pc' = "next_batch" /\ batch_idx' = batch_idx + 1 /\ UNCHANGED pos
    /\ UNCHANGED <<extVars, regVars, schemaVars, dag, workflows, tool_executions, batches, task,
                   batch_results, results, completed_nodes, total_nodes, calls>>

\* zip loop, isinstance(result, Exception): yield node_failed
yield_node_failed ==
    /\ pc = "zip"
    /\ batch_results[CurrentBatch[pos]].exc
    /\ events' = Append(events, Event("node_failed", CurrentBatch[pos],
                                      batch_results[CurrentBatch[pos]].value))
    /\ error' = batch_results[CurrentBatch[pos]].value
    /\ pc' = "mark_failed"
    /\ UNCHANGED <<extVars, regVars, schemaVars, dag, workflows, tool_executions, batches, batch_idx, task,
                   batch_results, results, completed_nodes, total_nodes, pos, calls>>

\* A failure branch that marks the workflow FAILED and goes on with the loop.
MarkFailedNoReturn ==
    /\ pc = "mark_failed"
    /\ workflows' = [workflows EXCEPT
                        ![WorkflowId].status = "FAILED",
                        ![WorkflowId].error_message = <<"Node failed", CurrentBatch[pos], error>>]
    /\ IF pos < Len(CurrentBatch)
       THEN pc' = "zip" /\ pos' = pos + 1 /\ UNCHANGED batch_idx
       ELSE pc' = "next_batch" /\ batch_idx' = batch_idx + 1 /\ UNCHANGED pos
    /\ UNCHANGED <<extVars, regVars, schemaVars, dag, tool_executions, events, batches, task, batch_results,
                   results, completed_nodes, total_nodes, calls, error>>

\* A failure branch that returns without updating the workflow row.
MarkFailedSkipped ==
    /\ pc = "mark_failed"
    /\ pc' = "exhausted"
    /\ UNCHANGED <<extVars, regVars, schemaVars, dag, workflows, tool_executions, events, batches,
                   batch_idx, task, batch_results, results, completed_nodes, total_nodes,
                   pos, calls, error>>

\* after node_failed: the workflow row becomes FAILED, then return
mark_workflow_failed ==
    /\ pc = "mark_failed"
    /\ workflows' = [workflows EXCEPT
                        ![WorkflowId].status = "FAILED",
                        ![WorkflowId].error_message = <<"Node failed", CurrentBatch[pos], error>>]
    /\ pc' = "exhausted"
    /\ UNCHANGED <<extVars, regVars, schemaVars, dag, tool_executions, events, batches, batch_idx, task, batch_results,
                   results, completed_nodes, total_nodes, pos, calls, error>>

\* A result branch that counts and reports the node without storing its result.
YieldCompletedWithoutResult ==
    /\ pc = "zip"
    /\ ~batch_results[CurrentBatch[pos]].exc
    /\ LET node_id == CurrentBatch[pos]
           result == batch_results[node_id].value
       IN /\ completed_nodes' = completed_nodes + 1
          /\ events' = Append(events,
                 Event("node_completed", node_id,
                       [progress |-> <<completed_nodes + 1, total_nodes>>,
                        result |-> result]))
    /\ IF pos < Len(CurrentBatch)
       THEN pos' = pos + 1 /\ UNCHANGED <<pc, batch_idx>>
       ELSE pc' = "next_batch" /\ batch_idx' = batch_idx + 1 /\ UNCHANGED pos
    /\ UNCHANGED <<extVars, regVars, schemaVars, dag, workflows, tool_executions, batches, task, batch_results,
                   results, total_nodes, calls, error>>

\* zip loop, a result: store it, count it, yield node_completed
yield_node_completed ==
    /\ pc = "zip"
    /\ ~batch_results[CurrentBatch[pos]].exc
    /\ LET node_id == CurrentBatch[pos]
           result == batch_results[node_id].value
       IN /\ results' = DictSet(results, node_id, result)
          /\ completed_nodes' = completed_nodes + 1
          /\ events' = Append(events,
                 Event("node_completed", node_id,
                       [progress |-> <<completed_nodes + 1, total_nodes>>,
                        result |-> result]))
    /\ IF pos < Len(CurrentBatch)
       THEN pos' = pos + 1 /\ UNCHANGED <<pc, batch_idx>>
       ELSE pc' = "next_batch" /\ batch_idx' = batch_idx + 1 /\ UNCHANGED pos
    /\ UNCHANGED <<extVars, regVars, schemaVars, dag, workflows, tool_executions, batches, task, batch_results,
                   total_nodes, calls, error>>

\* after the last batch: the workflow row becomes COMPLETED with the results
mark_workflow_completed ==
    /\ pc = "next_batch"
    /\ batch_idx > Len(batches)
    /\ workflows' = [workflows EXCEPT ![WorkflowId].status = "COMPLETED",
                                      ![WorkflowId].progress = 1,
                                      ![WorkflowId].results = results]
    /\ pc' = "yield_completed"
    /\ UNCHANGED <<extVars, regVars, schemaVars, dag, tool_executions, events, batches, batch_idx, task, batch_results,
                   results, completed_nodes, total_nodes, pos, calls, error>>

yield_workflow_completed ==
    /\ pc = "yield_completed"
    /\ events' = Append(events, Event("workflow_completed", None, results))
    /\ pc' = "exhausted"
    /\ UNCHANGED <<extVars, regVars, schemaVars, dag, workflows, tool_executions, batches, batch_idx, task,
                   batch_results, results, completed_nodes, total_nodes, pos, calls, error>>

\* except Exception as e: the workflow row becomes FAILED
handle_exception ==
    /\ pc = "except"
    /\ workflows' = [workflows EXCEPT ![WorkflowId].status = "FAILED",
                                      ![WorkflowId].error_message = error]
    /\ pc' = "yield_failed"
    /\ UNCHANGED <<extVars, regVars, schemaVars, dag, tool_executions, events, batches, batch_idx, task, batch_results,
                   results, completed_nodes, total_nodes, pos, calls, error>>

yield_workflow_failed ==
    /\ pc = "yield_failed"
    /\ events' = Append(events, Event("workflow_failed", None, error))
    /\ pc' = "exhausted"
    /\ UNCHANGED <<extVars, regVars, schemaVars, dag, workflows, tool_executions, batches, batch_idx, task,
                   batch_results, results, completed_nodes, total_nodes, pos, calls, error>>

\* event_stream: the generator is exhausted, the final complete event follows
event_stream_complete ==
    /\ pc = "exhausted"
    /\ events' = Append(events, Event("complete", None, None))
    /\ pc' = "closed"
    /\ UNCHANGED <<extVars, regVars, schemaVars, dag, workflows, tool_executions, batches, batch_idx, task,
                   batch_results, results, completed_nodes, total_nodes, pos, calls, error>>

-----------------------------------------------------------------------------
(***************************************************************************)
(* Specifications                                                          *)
(***************************************************************************)
\* Node definitions without input_mappings, the first k ids of DeclOrder.
PlainNodes(k) ==
    [i \in 1..k |-> [id |-> DeclOrder[i], tool |-> "load_dataset", inputs |-> EmptyDict,
                     input_mappings |-> <<>>]]

EdgeLists == SeqsUpTo(NodeIds \X NodeIds, MaxEdges)

PlainDags == {[nodes |-> PlainNodes(k), edges |-> e] : k \in 0..Len(DeclOrder), e \in EdgeLists}

RegistryIdle ==
    /\ regCall = NoCall
    /\ firstReg = EmptyDict

SchemaIdle ==
    /\ tasks = <<>>
    /\ schemaCall = NoSchemaCall

\* No server start-up in progress: empty tables, empty StateManager caches.
RecoveryIdle ==
    /\ db_tasks = EmptyDict
    /\ db_pipelines = EmptyDict
    /\ _active_tasks = EmptyDict
    /\ _active_pipelines = EmptyDict
    /\ server = "stopped"
    /\ last_session = [tasks |-> EmptyDict, pipelines |-> EmptyDict]

\* No concurrent callers of the tool registry.
ConcurrentIdle ==
    /\ _lock_tools = 0
    /\ threads = <<>>
    /\ reader = [pc |-> "idle", name |-> None]
    /\ observed = <<>>

NoCancel == [called |-> FALSE, success |-> FALSE, pc |-> None, batch_idx |-> 0]

NoCombinedCall == [called |-> FALSE, task_name |-> None, as_pipeline |-> TRUE,
                   ok |-> TRUE, error |-> None, properties |-> <<>>, required |-> <<>>]

\* No request at the RPC surface.
RpcIdle ==
    /\ cancel = NoCancel
    /\ combinedCall = NoCombinedCall
    /\ _tasks = EmptyDict

SingletonIdle ==
    /\ _instance = 0
    /\ _registry = 0
    /\ objects = <<>>
    /\ _lock = 0
    /\ locks = <<>>
    /\ callers = <<>>

ExtIdle ==
    /\ RecoveryIdle
    /\ ConcurrentIdle
    /\ RpcIdle
    /\ SingletonIdle

WorkflowIdle(d) ==
    /\ dag = d
    /\ workflows = EmptyDict
    /\ tool_executions = EmptyDict
    /\ events = <<>>
    /\ pc = "idle"
    /\ batches = <<>>
    /\ batch_idx = 0
    /\ task = EmptyDict
    /\ batch_results = EmptyDict
    /\ results = EmptyDict
    /\ completed_nodes = 0
    /\ total_nodes = 0
    /\ pos = 0
    /\ calls = EmptyDict
    /\ error = None

Next ==
    \/ execute_streaming_create
    \/ execute_streaming_plan
    \/ gather_start
    \/ \E i \in 1..Len(DeclOrder) : _execute_node_start(i)
    \/ \E n \in NodeIds : _execute_node_return(n)
    \/ \E n \in NodeIds : _execute_node_raise(n)
    \/ gather_done
    \/ yield_node_failed
    \/ mark_workflow_failed
    \/ yield_node_completed
    \/ mark_workflow_completed
    \/ yield_workflow_completed
    \/ handle_exception
    \/ yield_workflow_failed
    \/ event_stream_complete

Init ==
    /\ tools = GatewayTools
    /\ RegistryIdle
    /\ SchemaIdle
    /\ ExtIdle
    /\ \E d \in PlainDags : WorkflowIdle(d)

Spec == Init /\ [][Next]_vars

InitRegistry ==
    /\ tools = <<>>
    /\ RegistryIdle
    /\ SchemaIdle
    /\ ExtIdle
    /\ WorkflowIdle([nodes |-> <<>>, edges |-> <<>>])

NextRegistry == \E cls \in ToolClasses \cup {NotATool} : register(cls)

SpecRegistry == InitRegistry /\ [][NextRegistry]_vars

InitSchema ==
    /\ tools = <<>>
    /\ RegistryIdle
    /\ SchemaIdle
    /\ ExtIdle
    /\ WorkflowIdle([nodes |-> <<>>, edges |-> <<>>])

NextSchema ==
    \/ register_task
    \/ clear
    \/ \E task_names \in SeqsUpTo(CallerTaskNames, MaxPipelineLen) :
           call_get_pipeline_schema(task_names)

SpecSchema == InitSchema /\ [][NextSchema]_vars

\* Dags in which node v declares input_mappings {"u.dataset_id": "dataset_id"},
\* with or without a literal input under the same key.
Literal == <<"literal", "L">>

MappedNodes(k, v, u, lit) ==
    [i \in 1..k |->
        IF DeclOrder[i] = v
        THEN [id |-> v, tool |-> "load_dataset",
              inputs |-> IF lit THEN [dataset_id |-> Literal] ELSE EmptyDict,
              input_mappings |-> <<<< <<u, "dataset_id">>, "dataset_id" >>>>]
        ELSE PlainNodes(k)[i]]

WiringDags ==
    {[nodes |-> MappedNodes(k, v, u, lit), edges |-> e] :
        k \in 1..Len(DeclOrder), v \in NodeIds, u \in NodeIds, lit \in BOOLEAN,
        e \in SeqsUpTo(NodeIds \X NodeIds, 1)}

InitWiring ==
    /\ tools = GatewayTools
    /\ RegistryIdle
    /\ SchemaIdle
    /\ ExtIdle
    /\ \E d \in WiringDags : WorkflowIdle(d)

SpecWiring == InitWiring /\ [][Next]_vars

-----------------------------------------------------------------------------
(***************************************************************************)
(* Start-up recovery: TaasServer.start and                                 *)
(* StateManager.recover_from_last_session.  The tables tasks and pipelines *)
(* hold what the previous process left; a Pipeline row has no              *)
(* error_message column.                                                   *)
(***************************************************************************)
TaskStatusEnum == {"UNKNOWN", "PENDING", "QUEUED", "RUNNING", "COMPLETED", "FAILED", "CANCELLED"}

TaskIds == {"t1", "t2"}

PipelineIds == {"p1"}

\* A row of table tasks / of table pipelines.
Task(status) == [status |-> status, error_message |-> None]

Pipeline(status) == [status |-> status, task_ids |-> <<"t1", "t2">>]

\* session.query(Model).filter(Model.status.in_([RUNNING, QUEUED])).all()
QueryInterrupted(table) == {id \in DOMAIN table : table[id].status \in {"RUNNING", "QUEUED"}}

init_database ==
    /\ server = "stopped"
    /\ server' = "db_ready"
    /\ UNCHANGED <<db_tasks, db_pipelines, _active_tasks, _active_pipelines, last_session>>
    /\ UNCHANGED <<regVars, schemaVars, wfVars, concVars, rpcVars, initVars>>

\* The effect of recover_from_last_session on the two tables and the two caches.
RecoverEffect(tbl_tasks, tbl_pipelines) ==
    LET running_tasks == QueryInterrupted(tbl_tasks)
        running_pipelines == QueryInterrupted(tbl_pipelines)
    IN [tasks |-> [id \in DOMAIN tbl_tasks |->
                      IF id \in running_tasks
                      THEN [tbl_tasks[id] EXCEPT
                                !.status = "PENDING",
                                !.error_message = "Task interrupted by server restart"]
                      ELSE tbl_tasks[id]],
        pipelines |-> [id \in DOMAIN tbl_pipelines |->
                      IF id \in running_pipelines
                      THEN [tbl_pipelines[id] EXCEPT !.status = "PENDING"]
                      ELSE tbl_pipelines[id]],
        active_tasks |-> [id \in running_tasks |-> [status |-> "PENDING"]],
        active_pipelines |-> [id \in running_pipelines |->
                                 [status |-> "PENDING", task_ids |-> tbl_pipelines[id].task_ids]]]

recover_from_last_session ==
    LET r == RecoverEffect(db_tasks, db_pipelines) IN
    /\ server = "db_ready"
    /\ db_tasks' = r.tasks
    /\ db_pipelines' = r.pipelines
    /\ _active_tasks' = r.active_tasks
    /\ _active_pipelines' = r.active_pipelines
    /\ server' = "recovered"
    /\ UNCHANGED last_session
    /\ UNCHANGED <<regVars, schemaVars, wfVars, concVars, rpcVars, initVars>>

\* grpc.aio.server(...) ... await self.server.start()
server_start ==
    /\ server = "recovered"
    /\ server' = "serving"
    /\ UNCHANGED <<db_tasks, db_pipelines, _active_tasks, _active_pipelines, last_session>>
    /\ UNCHANGED <<regVars, schemaVars, wfVars, concVars, rpcVars, initVars>>

InitRecovery ==
    /\ tools = <<>>
    /\ RegistryIdle
    /\ SchemaIdle
    /\ WorkflowIdle([nodes |-> <<>>, edges |-> <<>>])
    /\ ConcurrentIdle
    /\ RpcIdle
    /\ SingletonIdle
    /\ db_tasks \in [TaskIds -> {Task(st) : st \in TaskStatusEnum}]
    /\ db_pipelines \in [PipelineIds -> {Pipeline(st) : st \in TaskStatusEnum}]
    /\ _active_tasks = EmptyDict
    /\ _active_pipelines = EmptyDict
    /\ server = "stopped"
    /\ last_session = [tasks |-> db_tasks, pipelines |-> db_pipelines]

NextRecovery ==
    \/ init_database
    \/ recover_from_last_session
    \/ server_start

SpecRecovery == InitRecovery /\ [][NextRecovery]_vars

-----------------------------------------------------------------------------
(***************************************************************************)
(* ToolRegistry under concurrent callers.  A register call is split at the *)
(* points where another thread can run: before the lock is taken, and      *)
(* between the statements of the with-block (where the lock keeps other    *)
(* callers of register and get_tool out).                                  *)
(***************************************************************************)
Threads == 1..NumThreads

Reader == NumThreads + 1

\* The classes the callers register: two different classes named load_dataset,
\* one named load_config, and one that is not a tool.
ConcurrentClasses ==
    {c \in ToolClasses : c.category = "UTILITY" /\ c.name = "load_dataset"}
        \cup {c \in ToolClasses : c.category = "UTILITY" /\ c.name = "load_config" /\ c.impl = "A"}
        \cup {NotATool}

\* self._tools[tool_name] = tool_class
DictAssign(reg, cls) ==
    IF IsRegistered(reg, cls.name)
    THEN [i \in DOMAIN reg |-> IF reg[i].name = cls.name THEN cls ELSE reg[i]]
    ELSE Append(reg, cls)

SetThread(t, pc_, outcome) == [threads EXCEPT ![t].pc = pc_, ![t].outcome = outcome]

\* if not issubclass(tool_class, BaseTool): raise ValueError
register_check_type(t) ==
    /\ threads[t].pc = "start"
    /\ threads' = IF threads[t].cls.isBaseTool
                  THEN SetThread(t, "acquire", None)
                  ELSE SetThread(t, "done", "must inherit from BaseTool")
    /\ UNCHANGED <<tools, _lock_tools, reader, observed>>
    /\ UNCHANGED <<regCall, firstReg, schemaVars, wfVars, recVars, rpcVars, initVars>>

\* A lock that admits a caller although another one holds it.
AcquireIgnoringHolder(t) ==
    /\ threads[t].pc = "acquire"
    /\ _lock_tools' = t
    /\ threads' = SetThread(t, "check", None)
    /\ UNCHANGED <<tools, reader, observed>>
    /\ UNCHANGED <<regCall, firstReg, schemaVars, wfVars, recVars, rpcVars, initVars>>

\* with self._lock_tools:  (entry)
register_acquire(t) ==
    /\ threads[t].pc = "acquire"
    /\ _lock_tools = 0
    /\ _lock_tools' = t
    /\ threads' = SetThread(t, "check", None)
    /\ UNCHANGED <<tools, reader, observed>>
    /\ UNCHANGED <<regCall, firstReg, schemaVars, wfVars, recVars, rpcVars, initVars>>

\* if tool_name in self._tools: raise ValueError  (the with-block releases the lock)
register_check_name(t) ==
    /\ threads[t].pc = "check"
    /\ IF IsRegistered(tools, threads[t].cls.name)
       THEN /\ threads' = SetThread(t, "done", "already registered")
            /\ _lock_tools' = 0
       ELSE /\ threads' = SetThread(t, "insert", None)
            /\ UNCHANGED _lock_tools
    /\ UNCHANGED <<tools, reader, observed>>
    /\ UNCHANGED <<regCall, firstReg, schemaVars, wfVars, recVars, rpcVars, initVars>>

\* self._tools[tool_name] = tool_class
register_insert(t) ==
    /\ threads[t].pc = "insert"
    /\ tools' = DictAssign(tools, threads[t].cls)
    /\ threads' = SetThread(t, "print", None)
    /\ UNCHANGED <<_lock_tools, reader, observed>>
    /\ UNCHANGED <<regCall, firstReg, schemaVars, wfVars, recVars, rpcVars, initVars>>

\* print(...), then the with-block releases the lock and register returns
register_release(t) ==
    /\ threads[t].pc = "print"
    /\ threads' = SetThread(t, "done", "ok")
    /\ _lock_tools' = 0
    /\ UNCHANGED <<tools, reader, observed>>
    /\ UNCHANGED <<regCall, firstReg, schemaVars, wfVars, recVars, rpcVars, initVars>>

\* get_tool(name): with self._lock_tools:  (entry)
get_tool_acquire(name) ==
    /\ reader.pc = "idle"
    /\ Len(observed) < MaxLookups
    /\ _lock_tools = 0
    /\ _lock_tools' = Reader
    /\ reader' = [pc |-> "locked", name |-> name]
    /\ UNCHANGED <<tools, threads, observed>>
    /\ UNCHANGED <<regCall, firstReg, schemaVars, wfVars, recVars, rpcVars, initVars>>

\* return self._tools.get(name)
get_tool_return ==
    /\ reader.pc = "locked"
    /\ observed' = Append(observed, [name |-> reader.name, value |-> get_tool(reader.name)])
    /\ reader' = [pc |-> "idle", name |-> None]
    /\ _lock_tools' = 0
    /\ UNCHANGED <<tools, threads>>
    /\ UNCHANGED <<regCall, firstReg, schemaVars, wfVars, recVars, rpcVars, initVars>>

InitConcurrent ==
    /\ tools = <<>>
    /\ RegistryIdle
    /\ SchemaIdle
    /\ RecoveryIdle
    /\ RpcIdle
    /\ SingletonIdle
    /\ WorkflowIdle([nodes |-> <<>>, edges |-> <<>>])
    /\ _lock_tools = 0
    /\ threads \in [Threads -> {[cls |-> c, pc |-> "start", outcome |-> None] :
                                    c \in ConcurrentClasses}]
    /\ reader = [pc |-> "idle", name |-> None]
    /\ observed = <<>>

NextConcurrent ==
    \/ \E t \in Threads : register_check_type(t)
    \/ \E t \in Threads : register_acquire(t)
    \/ \E t \in Threads : register_check_name(t)
    \/ \E t \in Threads : register_insert(t)
    \/ \E t \in Threads : register_release(t)
    \/ \E name \in {"load_dataset", "load_config"} : get_tool_acquire(name)
    \/ get_tool_return

SpecConcurrent == InitConcurrent /\ [][NextConcurrent]_vars

-----------------------------------------------------------------------------
(***************************************************************************)
(* Cancellation.  The only cancellation entry point of the repository is   *)
(* TaskServiceServicer.CancelTask, which answers success=False and touches *)
(* nothing; execute_streaming holds no cancellation handle.                *)
(***************************************************************************)
CancelTask ==
    /\ pc \notin {"idle", "closed"}
    /\ ~cancel.called
    /\ cancel' = [called |-> TRUE, success |-> FALSE, pc |-> pc, batch_idx |-> batch_idx]
    /\ UNCHANGED <<regVars, schemaVars, wfVars, recVars, concVars, combinedCall, _tasks, initVars>>

\* Dags of up to three nodes and at most one edge.
CancelDags == {d \in PlainDags : Len(d.edges) <= 1}

InitCancel ==
    /\ tools = GatewayTools
    /\ RegistryIdle
    /\ SchemaIdle
    /\ ExtIdle
    /\ \E d \in CancelDags : WorkflowIdle(d)

NextCancel ==
    \/ Next
    \/ CancelTask

SpecCancel == InitCancel /\ [][NextCancel]_vars

-----------------------------------------------------------------------------
(***************************************************************************)
(* Workflows whose nodes may name a tool that is not registered.           *)
(***************************************************************************)
NodeTools == {"load_dataset", "no_such_tool"}

ToolNodes(k, t) ==
    [i \in 1..k |-> [id |-> DeclOrder[i], tool |-> t[i], inputs |-> EmptyDict,
                     input_mappings |-> <<>>]]

ToolDags ==
    {[nodes |-> ToolNodes(k, t), edges |-> e] :
        k \in 1..Len(DeclOrder), t \in [1..Len(DeclOrder) -> NodeTools],
        e \in SeqsUpTo(NodeIds \X NodeIds, 1)}

InitTools ==
    /\ tools = GatewayTools
    /\ RegistryIdle
    /\ SchemaIdle
    /\ ExtIdle
    /\ \E d \in ToolDags : WorkflowIdle(d)

SpecTools == InitTools /\ [][Next]_vars

-----------------------------------------------------------------------------
(***************************************************************************)
(* Workflows whose node list may declare an id more than once; the two     *)
(* registered tools tell the definitions of one id apart.                  *)
(***************************************************************************)
DuplicateIds == {"a", "b"}

NodeDefinitions ==
    {[id |-> n, tool |-> t, inputs |-> EmptyDict, input_mappings |-> <<>>] :
        n \in DuplicateIds, t \in {"load_dataset", "load_config"}}

DuplicateDags ==
    {[nodes |-> ns, edges |-> e] :
        ns \in [1..2 -> NodeDefinitions] \cup [1..3 -> NodeDefinitions],
        e \in SeqsUpTo(DuplicateIds \X DuplicateIds, 1)}

InitDuplicates ==
    /\ tools = GatewayTools
    /\ RegistryIdle
    /\ SchemaIdle
    /\ ExtIdle
    /\ \E d \in DuplicateDags : WorkflowIdle(d)

SpecDuplicates == InitDuplicates /\ [][Next]_vars

-----------------------------------------------------------------------------
(***************************************************************************)
(* TaskRegistry.get_combined_input_schema.  The registry is passed as a    *)
(* dict name -> class; the result lists the properties in dict order, each *)
(* with the task whose schema it carries.                                  *)
(***************************************************************************)
\* The registry of the example tasks registered so far, as a dict.
ExampleRegistry == [n \in Range(tasks) |-> TaskClass(n)]

\* _is_output_from_dependency(param_name, dependencies)
RECURSIVE _is_output_from_dependency(_, _, _, _)
_is_output_from_dependency(reg, param_name, dependencies, i) ==
    IF i > Len(dependencies) THEN FALSE
    ELSE IF dependencies[i] \notin DOMAIN reg
    THEN _is_output_from_dependency(reg, param_name, dependencies, i + 1)
    ELSE IF param_name \in MappingValues(reg[dependencies[i]])
    THEN TRUE
    ELSE _is_output_from_dependency(reg, param_name, dependencies, i + 1)

\* combined_properties[prop_name] = prop_schema: a new key goes last, an
\* existing key keeps its place and takes the new value.
SetProperty(props, prop_name, owner) ==
    IF prop_name \in PropNames(props)
    THEN [i \in DOMAIN props |->
             IF props[i].name = prop_name THEN [name |-> prop_name, schema |-> owner]
             ELSE props[i]]
    ELSE Append(props, [name |-> prop_name, schema |-> owner])

\* The loop of collect_schemas over the properties of dep_class, from index j.
RECURSIVE AddProperties(_, _, _, _, _)
AddProperties(reg, dependencies, dep_class, j, st) ==
    IF j > Len(dep_class.properties) THEN st
    ELSE LET prop_name == dep_class.properties[j]
             st1 == IF _is_output_from_dependency(reg, prop_name, dependencies, 1)
                    THEN st
                    ELSE [st EXCEPT
                             !.properties = SetProperty(st.properties, prop_name, dep_class.name),
                             !.required = IF InSeq(prop_name, dep_class.required)
                                             /\ ~InSeq(prop_name, st.required)
                                          THEN Append(st.required, prop_name)
                                          ELSE st.required]
         IN AddProperties(reg, dependencies, dep_class, j + 1, st1)

\* collect_schemas(dep_name, depth), and the loop that calls it for each name
\* of a dependency list from index i; st carries visited, the combined
\* schema so far, and the ValueError once one was raised.
RECURSIVE collect_schemas(_, _, _, _, _)
RECURSIVE CollectAll(_, _, _, _, _, _)
collect_schemas(reg, dependencies, dep_name, depth, st) ==
    IF st.error # None THEN st
    ELSE IF depth > MaxDepth
    THEN [st EXCEPT !.error = "Dependency chain too deep (possible cycle)"]
    ELSE IF dep_name \in st.visited THEN st
    ELSE LET st1 == [st EXCEPT !.visited = st.visited \cup {dep_name}] IN
         IF dep_name \notin DOMAIN reg
         THEN [st1 EXCEPT !.error = "Dependency task not found"]
         ELSE LET st2 == CollectAll(reg, dependencies, reg[dep_name].dependencies, 1,
                                    depth + 1, st1)
              IN IF st2.error # None THEN st2
                 ELSE AddProperties(reg, dependencies, reg[dep_name], 1, st2)

CollectAll(reg, dependencies, names, i, depth, st) ==
    IF i > Len(names) \/ st.error # None THEN st
    ELSE CollectAll(reg, dependencies, names, i + 1, depth,
                    collect_schemas(reg, dependencies, names[i], depth, st))

\* task_class.get_input_schema(), in the shape of a result.
InputSchema(cls) ==
    [ok |-> TRUE, error |-> None,
     properties |-> [j \in DOMAIN cls.properties |->
                        [name |-> cls.properties[j], schema |-> cls.name]],
     required |-> cls.required]

get_combined_input_schema(reg, task_name, as_pipeline) ==
    IF task_name \notin DOMAIN reg
    THEN [ok |-> FALSE, error |-> "Task not found", properties |-> <<>>, required |-> <<>>]
    ELSE LET dependencies == reg[task_name].dependencies IN
         IF ~as_pipeline \/ dependencies = <<>>
         THEN InputSchema(reg[task_name])
         ELSE LET st == CollectAll(reg, dependencies, dependencies, 1, 0,
                                   [visited |-> {}, properties |-> <<>>, required |-> <<>>,
                                    error |-> None])
              IN [ok |-> st.error = None, error |-> st.error,
                  properties |-> IF st.error = None THEN st.properties ELSE <<>>,
                  required |-> IF st.error = None THEN st.required ELSE <<>>]

CombinedCall(reg, task_name, as_pipeline) ==
    LET r == get_combined_input_schema(reg, task_name, as_pipeline) IN
    [called |-> TRUE, task_name |-> task_name, as_pipeline |-> as_pipeline,
     ok |-> r.ok, error |-> r.error, properties |-> r.properties, required |-> r.required]

\* A call on the registry of the example tasks.
call_get_combined_input_schema(task_name, as_pipeline) ==
    /\ combinedCall' = CombinedCall(ExampleRegistry, task_name, as_pipeline)
    /\ UNCHANGED <<cancel, _tasks>>
    /\ UNCHANGED <<regVars, schemaVars, wfVars, recVars, concVars, initVars>>

\* The registry is never changed between a call and its result.
register_task_idle ==
    /\ ~combinedCall.called
    /\ register_task

InitCombined == InitSchema

NextCombined ==
    \/ register_task_idle
    \/ \E task_name \in CallerTaskNames, as_pipeline \in BOOLEAN :
           call_get_combined_input_schema(task_name, as_pipeline)

SpecCombined == InitCombined /\ [][NextCombined]_vars

\* Task classes other than the examples: each declares one input property of
\* its own and any list of dependencies, registered or not.
DepNames == {"x", "y", "z"}

DepTask(n, deps) ==
    [name |-> n, properties |-> <<<<"input_of", n>>>>, required |-> <<<<"input_of", n>>>>,
     output_mappings |-> <<>>, dependencies |-> deps]

DepRegistries ==
    UNION {[S -> UNION {{DepTask(n, deps) : deps \in SeqsUpTo(DepNames, MaxDeps)} : n \in S}] :
              S \in SUBSET DepNames}

\* self._tasks[name] is the class named name.
WellKeyed(reg) == \A n \in DOMAIN reg : reg[n].name = n

\* A call on a registry of such classes.
call_with_dependencies(task_name, as_pipeline) ==
    /\ ~combinedCall.called
    /\ combinedCall' = CombinedCall(_tasks, task_name, as_pipeline)
    /\ UNCHANGED <<cancel, _tasks>>
    /\ UNCHANGED <<regVars, schemaVars, wfVars, recVars, concVars, initVars>>

InitDeps ==
    /\ tools = <<>>
    /\ RegistryIdle
    /\ SchemaIdle
    /\ RecoveryIdle
    /\ ConcurrentIdle
    /\ SingletonIdle
    /\ WorkflowIdle([nodes |-> <<>>, edges |-> <<>>])
    /\ cancel = NoCancel
    /\ combinedCall = NoCombinedCall
    /\ _tasks \in {reg \in DepRegistries : WellKeyed(reg)}

NextDeps ==
    \E task_name \in DepNames, as_pipeline \in BOOLEAN :
        call_with_dependencies(task_name, as_pipeline)

SpecDeps == InitDeps /\ [][NextDeps]_vars

-----------------------------------------------------------------------------
(***************************************************************************)
(* _topological_sort called on its own, over dags of up to four nodes      *)
(* whose edges join declared nodes.                                        *)
(***************************************************************************)
SortOrder == <<"a", "b", "c", "d">>

SortNodes(k) ==
    [i \in 1..k |-> [id |-> SortOrder[i], tool |-> "load_dataset", inputs |-> EmptyDict,
                     input_mappings |-> <<>>]]

\* Edge lists over the first k nodes, self-loops left out.
SortEdges(k) ==
    SeqsUpTo({p \in {SortOrder[i] : i \in 1..k} \X {SortOrder[i] : i \in 1..k} : p[1] # p[2]},
             MaxSortEdges)

\* batches = self._topological_sort(dag)
call_topological_sort ==
    /\ pc = "idle"
    /\ LET r == _topological_sort(dag) IN
       /\ batches' = r.batches
       /\ error' = r.error
    /\ pc' = "sorted"
    /\ UNCHANGED <<extVars, regVars, schemaVars, dag, workflows, tool_executions, events,
                   batch_idx, task, batch_results, results, completed_nodes, total_nodes,
                   pos, calls>>

InitSort ==
    /\ tools = GatewayTools
    /\ RegistryIdle
    /\ SchemaIdle
    /\ ExtIdle
    /\ \E k \in 1..Len(SortOrder) :
           \E e \in SortEdges(k) : WorkflowIdle([nodes |-> SortNodes(k), edges |-> e])

NextSort == call_topological_sort

SpecSort == InitSort /\ [][NextSort]_vars

-----------------------------------------------------------------------------
(***************************************************************************)
(* The registry singleton: ToolRegistry.__new__, ToolRegistry.__init__ and *)
(* get_tool_registry called from several threads, each of which then       *)
(* registers a tool.  A step is one statement; a thread can be preempted    *)
(* between any two.  An object's attributes are absent until assigned;     *)
(* _tools and _lock_tools are read only by threads whose __init__ has      *)
(* returned, when both exist.                                              *)
(***************************************************************************)
Callers == 1..NumCallers

SingletonClasses == ConcurrentClasses \ {NotATool}

NewObject == [has_initialized |-> FALSE, _initialized |-> FALSE, _tools |-> <<>>, _lock_tools |-> 0]

SetCaller(t, pc_) == [callers EXCEPT ![t].pc = pc_]

Enter(t, obj) == [callers EXCEPT ![t].pc = "init_check", ![t].self = obj]

\* get_tool_registry: if _registry is None  /  return _registry
get_tool_registry_check(t) ==
    /\ callers[t].pc = "get_tool_registry"
    /\ callers' = IF _registry = 0
                  THEN SetCaller(t, "new_check")
                  ELSE [callers EXCEPT ![t].pc = "register", ![t].self = _registry]
    /\ UNCHANGED <<_instance, _registry, objects, _lock, locks>>
    /\ UNCHANGED <<regVars, schemaVars, wfVars, recVars, concVars, rpcVars>>

\* __new__: if cls._instance is None  /  return cls._instance
new_check(t) ==
    /\ callers[t].pc = "new_check"
    /\ callers' = IF _instance = 0 THEN SetCaller(t, "new_acquire") ELSE Enter(t, _instance)
    /\ UNCHANGED <<_instance, _registry, objects, _lock, locks>>
    /\ UNCHANGED <<regVars, schemaVars, wfVars, recVars, concVars, rpcVars>>

\* __new__: with cls._lock:  (entry)
new_acquire(t) ==
    /\ callers[t].pc = "new_acquire"
    /\ _lock = 0
    /\ _lock' = t
    /\ callers' = SetCaller(t, "new_create")
    /\ UNCHANGED <<_instance, _registry, objects, locks>>
    /\ UNCHANGED <<regVars, schemaVars, wfVars, recVars, concVars, rpcVars>>

\* __new__: if cls._instance is None: cls._instance = super().__new__(cls)
\* (otherwise the with-block ends and cls._instance is returned)
new_create(t) ==
    /\ callers[t].pc = "new_create"
    /\ IF _instance = 0
       THEN /\ objects' = Append(objects, NewObject)
            /\ _instance' = Len(objects) + 1
            /\ callers' = SetCaller(t, "new_flag")
            /\ UNCHANGED _lock
       ELSE /\ _lock' = 0
            /\ callers' = Enter(t, _instance)
            /\ UNCHANGED <<_instance, objects>>
    /\ UNCHANGED <<_registry, locks>>
    /\ UNCHANGED <<regVars, schemaVars, wfVars, recVars, concVars, rpcVars>>

\* __new__: cls._instance._initialized = False; the with-block ends;
\* return cls._instance
new_flag(t) ==
    /\ callers[t].pc = "new_flag"
    /\ objects' = [objects EXCEPT ![_instance].has_initialized = TRUE,
                                  ![_instance]._initialized = FALSE]
    /\ _lock' = 0
    /\ callers' = Enter(t, _instance)
    /\ UNCHANGED <<_instance, _registry, locks>>
    /\ UNCHANGED <<regVars, schemaVars, wfVars, recVars, concVars, rpcVars>>

\* __init__: if hasattr(self, "_initialized") and self._initialized: return
init_check(t) ==
    /\ callers[t].pc = "init_check"
    /\ LET self == objects[callers[t].self] IN
       callers' = IF self.has_initialized /\ self._initialized
                  THEN SetCaller(t, "init_return")
                  ELSE SetCaller(t, "init_tools")
    /\ UNCHANGED <<_instance, _registry, objects, _lock, locks>>
    /\ UNCHANGED <<regVars, schemaVars, wfVars, recVars, concVars, rpcVars>>

\* __init__: self._tools = {}
init_tools(t) ==
    /\ callers[t].pc = "init_tools"
    /\ objects' = [objects EXCEPT ![callers[t].self]._tools = <<>>]
    /\ callers' = SetCaller(t, "init_lock")
    /\ UNCHANGED <<_instance, _registry, _lock, locks>>
    /\ UNCHANGED <<regVars, schemaVars, wfVars, recVars, concVars, rpcVars>>

\* __init__: self._lock_tools = threading.Lock()
init_lock(t) ==
    /\ callers[t].pc = "init_lock"
    /\ locks' = Append(locks, 0)
    /\ objects' = [objects EXCEPT ![callers[t].self]._lock_tools = Len(locks) + 1]
    /\ callers' = SetCaller(t, "init_flag")
    /\ UNCHANGED <<_instance, _registry, _lock>>
    /\ UNCHANGED <<regVars, schemaVars, wfVars, recVars, concVars, rpcVars>>

\* __init__: self._initialized = True
init_flag(t) ==
    /\ callers[t].pc = "init_flag"
    /\ objects' = [objects EXCEPT ![callers[t].self].has_initialized = TRUE,
                                  ![callers[t].self]._initialized = TRUE]
    /\ callers' = SetCaller(t, "init_return")
    /\ UNCHANGED <<_instance, _registry, _lock, locks>>
    /\ UNCHANGED <<regVars, schemaVars, wfVars, recVars, concVars, rpcVars>>

\* ToolRegistry() has returned: the caller of the constructor goes on to
\* register; get_tool_registry assigns _registry = ToolRegistry() and returns
\* _registry.
init_return(t) ==
    /\ callers[t].pc = "init_return"
    /\ IF callers[t].entry = "get_tool_registry"
       THEN /\ _registry' = callers[t].self
            /\ callers' = SetCaller(t, "register")
       ELSE /\ callers' = SetCaller(t, "register")
            /\ UNCHANGED _registry
    /\ UNCHANGED <<_instance, objects, _lock, locks>>
    /\ UNCHANGED <<regVars, schemaVars, wfVars, recVars, concVars, rpcVars>>

\* register: with self._lock_tools:  (entry; the Lock the attribute names now)
singleton_register_acquire(t) ==
    /\ callers[t].pc = "register"
    /\ LET lk == objects[callers[t].self]._lock_tools IN
       /\ locks[lk] = 0
       /\ locks' = [locks EXCEPT ![lk] = t]
       /\ callers' = [callers EXCEPT ![t].pc = "check", ![t].held = lk]
    /\ UNCHANGED <<_instance, _registry, objects, _lock>>
    /\ UNCHANGED <<regVars, schemaVars, wfVars, recVars, concVars, rpcVars>>

\* register: if tool_name in self._tools: raise ValueError
singleton_register_check(t) ==
    /\ callers[t].pc = "check"
    /\ IF IsRegistered(objects[callers[t].self]._tools, callers[t].cls.name)
       THEN /\ callers' = [callers EXCEPT ![t].pc = "done", ![t].held = 0,
                                          ![t].outcome = "already registered"]
            /\ locks' = [locks EXCEPT ![callers[t].held] = 0]
       ELSE /\ callers' = SetCaller(t, "insert")
            /\ UNCHANGED locks
    /\ UNCHANGED <<_instance, _registry, objects, _lock>>
    /\ UNCHANGED <<regVars, schemaVars, wfVars, recVars, concVars, rpcVars>>

\* register: self._tools[tool_name] = tool_class; print; the with-block ends
singleton_register_insert(t) ==
    /\ callers[t].pc = "insert"
    /\ objects' = [objects EXCEPT ![callers[t].self]._tools = DictAssign(@, callers[t].cls)]
    /\ locks' = [locks EXCEPT ![callers[t].held] = 0]
    /\ callers' = [callers EXCEPT ![t].pc = "done", ![t].held = 0, ![t].outcome = "ok"]
    /\ UNCHANGED <<_instance, _registry, _lock>>
    /\ UNCHANGED <<regVars, schemaVars, wfVars, recVars, concVars, rpcVars>>

InitSingleton ==
    /\ tools = <<>>
    /\ RegistryIdle
    /\ SchemaIdle
    /\ RecoveryIdle
    /\ ConcurrentIdle
    /\ RpcIdle
    /\ WorkflowIdle([nodes |-> <<>>, edges |-> <<>>])
    /\ _instance = 0
    /\ _registry = 0
    /\ objects = <<>>
    /\ _lock = 0
    /\ locks = <<>>
    /\ callers \in [Callers -> UNION {{[entry |-> "ToolRegistry", cls |-> c, pc |-> "new_check",
                                        self |-> 0, held |-> 0, outcome |-> None],
                                       [entry |-> "get_tool_registry", cls |-> c,
                                        pc |-> "get_tool_registry",
                                        self |-> 0, held |-> 0, outcome |-> None]} :
                                      c \in SingletonClasses}]

NextSingleton ==
    \/ \E t \in Callers : get_tool_registry_check(t)
    \/ \E t \in Callers : new_check(t)
    \/ \E t \in Callers : new_acquire(t)
    \/ \E t \in Callers : new_create(t)
    \/ \E t \in Callers : new_flag(t)
    \/ \E t \in Callers : init_check(t)
    \/ \E t \in Callers : init_tools(t)
    \/ \E t \in Callers : init_lock(t)
    \/ \E t \in Callers : init_flag(t)
    \/ \E t \in Callers : init_return(t)
    \/ \E t \in Callers : singleton_register_acquire(t)
    \/ \E t \in Callers : singleton_register_check(t)
    \/ \E t \in Callers : singleton_register_insert(t)

SpecSingleton == InitSingleton /\ [][NextSingleton]_vars

-----------------------------------------------------------------------------
(***************************************************************************)
(* A client that stops reading the event stream.  The response's generator *)
(* is then closed where it is suspended, at a yield: GeneratorExit is       *)
(* raised there, which neither `except Exception` of event_stream nor that *)
(* of execute_streaming catches, and no finally block exists.  The         *)
(* executor's own steps are taken whenever they are possible: tools         *)
(* terminate and the store is available.                                   *)
(***************************************************************************)
\* execute_streaming is suspended at one of its yields.
AtYield ==
    \/ pc = "next_batch"
    \/ pc = "zip" /\ pos > 1
    \/ pc = "mark_failed"
    \/ pc = "exhausted"

\* the generator is closed at the yield; nothing is written
aclose ==
    /\ AtYield
    /\ pc' = "closed"
    /\ UNCHANGED <<extVars, regVars, schemaVars, dag, workflows, tool_executions, events, batches, batch_idx,
                   task, batch_results, results, completed_nodes, total_nodes, pos, calls, error>>

\* The dags submitted by that client: up to three nodes and one edge.
StreamDags == {[nodes |-> PlainNodes(k), edges |-> e] :
                  k \in 0..Len(DeclOrder), e \in SeqsUpTo(NodeIds \X NodeIds, 1)}

InitStream ==
    /\ tools = GatewayTools
    /\ RegistryIdle
    /\ SchemaIdle
    /\ ExtIdle
    /\ \E d \in StreamDags : WorkflowIdle(d)

NextStream ==
    \/ Next
    \/ aclose

SpecStream == InitStream /\ [][NextStream]_vars /\ WF_vars(Next)

-----------------------------------------------------------------------------
(***************************************************************************)
(* Properties                                                              *)
(***************************************************************************)
Count(type) == Cardinality({i \in DOMAIN events : events[i].type = type})

CountFor(type, n) ==
    Cardinality({i \in DOMAIN events : events[i].type = type /\ events[i].node_id = n})

IsNodeEvent(e) == e.type \in {"node_completed", "node_failed"}

IsWorkflowEvent(e) == e.type \in {"workflow_completed", "workflow_failed"}

\* Validation passed: _topological_sort returned batches for the submitted dag.
Accepted == _topological_sort(dag).ok

Ended == pc = "closed"

DeclaredIds == {dag.nodes[i].id : i \in DOMAIN dag.nodes}

\* Paths of the edge list: n reaches m in one or more edges.
RECURSIVE ReachIn(_, _, _)
ReachIn(n, m, k) ==
    IF k = 0 THEN FALSE
    ELSE \E i \in DOMAIN dag.edges :
            /\ dag.edges[i][1] = n
            /\ (dag.edges[i][2] = m \/ ReachIn(dag.edges[i][2], m, k - 1))

HasCycle == \E n \in NodeIds : ReachIn(n, n, Len(dag.edges))

RowStatus(n) == IF n \in DOMAIN tool_executions THEN tool_executions[n].status ELSE None

WorkflowStatus == IF WorkflowId \in DOMAIN workflows THEN workflows[WorkflowId].status ELSE None

\* C1: register called with a class whose name is already registered is rejected
\* with an error and leaves the registry unchanged: the name still maps to the
\* class registered first and list_tools returns the same names as before.
C1_DuplicateRegisterRejected ==
    (regCall.called /\ IsRegistered(regCall.before, regCall.cls.name)) =>
        /\ ~regCall.ok
        /\ regCall.cls.isBaseTool => regCall.error = "already registered"
        /\ tools = regCall.before
        /\ get_tool(regCall.cls.name) = <<firstReg[regCall.cls.name]>>
        /\ list_tools(None) = RegistryNames(regCall.before)

C1_Witness ==
    /\ regCall.called
    /\ regCall.cls.isBaseTool
    /\ IsRegistered(regCall.before, regCall.cls.name)
    /\ ~regCall.ok
    /\ Len(tools) >= 2
    /\ regCall.cls # firstReg[regCall.cls.name]

\* C2 as stated: in the stream of an accepted workflow with n nodes there is
\* exactly one start and one complete, node_completed + node_failed <= n, and the
\* sum equals n iff workflow_completed is emitted.
C2_Original ==
    (Accepted /\ Ended) =>
        /\ Count("start") = 1
        /\ Count("complete") = 1
        /\ Count("node_completed") + Count("node_failed") <= Cardinality(DeclaredIds)
        /\ (Count("node_completed") + Count("node_failed") = Cardinality(DeclaredIds))
               <=> (Count("workflow_completed") >= 1)

\* C2 amended: in the stream of an accepted workflow with n nodes there is exactly
\* one start and one complete, node_completed + node_failed <= n, and the number of
\* node_completed events equals n iff workflow_completed is emitted.
C2_StreamCounts ==
    Accepted =>
        /\ Count("start") <= 1
        /\ Count("complete") <= 1
        /\ Count("node_completed") + Count("node_failed") <= Cardinality(DeclaredIds)
        /\ Count("workflow_completed") >= 1 => Count("node_completed") = Cardinality(DeclaredIds)
        /\ Ended =>
              /\ Count("start") = 1
              /\ Count("complete") = 1
              /\ (Count("node_completed") = Cardinality(DeclaredIds))
                     <=> (Count("workflow_completed") >= 1)

C2_Witness ==
    /\ Accepted
    /\ Ended
    /\ Cardinality(DeclaredIds) = 3
    /\ Count("node_completed") = 2
    /\ Count("node_failed") = 1
    /\ Count("workflow_completed") = 0

\* C3: in every event stream start precedes every node_completed / node_failed
\* event, every node event precedes the workflow_completed / workflow_failed
\* event, the workflow event precedes complete, and complete is the last event.
C3_EventOrder ==
    /\ \A j \in DOMAIN events :
          IsNodeEvent(events[j]) => \E i \in 1..(j - 1) : events[i].type = "start"
    /\ \A i, j \in DOMAIN events :
          /\ (events[i].type = "start" /\ IsNodeEvent(events[j])) => i < j
          /\ (IsNodeEvent(events[i]) /\ IsWorkflowEvent(events[j])) => i < j
          /\ (IsWorkflowEvent(events[i]) /\ events[j].type = "complete") => i < j
          /\ events[i].type = "complete" => i = Len(events)
    /\ Ended => events[Len(events)].type = "complete"

C3_Witness ==
    /\ Ended
    /\ Count("start") = 1
    /\ Count("node_completed") = 3
    /\ Count("workflow_completed") = 1
    /\ events[Len(events)].type = "complete"

\* C4: for every explicit edge u -> v of an accepted workflow, v's tool is invoked
\* only after u completed successfully and u's outputs are in the result map; v's
\* node_completed never precedes u's; v is never started when u failed.
C4_EdgeOrder ==
    Accepted =>
        \A e \in Range(dag.edges) :
            LET u == e[1]
                v == e[2]
            IN /\ (v \in DOMAIN tool_executions \/ v \in DOMAIN calls) =>
                      /\ RowStatus(u) = "COMPLETED"
                      /\ u \in DOMAIN results
                      /\ results[u] = tool_executions[u].outputs
               /\ \A j \in DOMAIN events :
                      (events[j].type = "node_completed" /\ events[j].node_id = v) =>
                          \E i \in 1..(j - 1) : /\ events[i].type = "node_completed"
                                                /\ events[i].node_id = u
               /\ RowStatus(u) = "FAILED" => v \notin DOMAIN tool_executions

C4_Witness ==
    /\ Accepted
    /\ Ended
    /\ Len(batches) = 3
    /\ Len(dag.edges) >= 2
    /\ CountFor("node_completed", "c") = 1

\* C5: for every input mapping 'u.f' -> x declared on node v (u another declared
\* node, not ordered after v by the explicit edges), the inputs passed to v's tool and recorded in v's execution row contain
\* x with exactly the value u's execution returned under f in the same run.
C5_MappedValueDelivered ==
    \A k \in DOMAIN dag.nodes :
        \A m \in DOMAIN dag.nodes[k].input_mappings :
            LET v == dag.nodes[k].id
                u == dag.nodes[k].input_mappings[m][1][1]
                f == dag.nodes[k].input_mappings[m][1][2]
                x == dag.nodes[k].input_mappings[m][2]
            IN (v \in DOMAIN calls /\ u \in DeclaredIds /\ u # v
                    /\ ~ReachIn(v, u, Len(dag.edges))) =>
                  /\ RowStatus(u) = "COMPLETED"
                  /\ f \in DOMAIN tool_executions[u].outputs
                  /\ x \in DOMAIN calls[v]
                  /\ calls[v][x] = tool_executions[u].outputs[f]
                  /\ x \in DOMAIN tool_executions[v].inputs
                  /\ tool_executions[v].inputs[x] = tool_executions[u].outputs[f]

\* C6: for a workflow whose edge set contains a cycle (a self-loop included) no
\* WorkflowExecution row is persisted, in status RUNNING or any other.
C6_NoRowForCyclicWorkflow ==
    HasCycle => WorkflowId \notin DOMAIN workflows

AllNodesSucceeded == \A n \in DeclaredIds : RowStatus(n) = "COMPLETED"

\* C7: when the event stream of an accepted workflow has ended, the persisted
\* status is COMPLETED iff every node's tool execution succeeded and FAILED
\* otherwise; it is never left RUNNING and never changes once COMPLETED or FAILED.
C7_FinalStatus ==
    /\ [](Accepted /\ Ended =>
            /\ WorkflowStatus \in {"COMPLETED", "FAILED"}
            /\ WorkflowStatus = "COMPLETED" <=> AllNodesSucceeded)
    /\ [][(Accepted /\ WorkflowStatus \in {"COMPLETED", "FAILED"}) =>
             workflows'[WorkflowId].status = workflows[WorkflowId].status]_vars

C7_Witness ==
    /\ Accepted
    /\ Ended
    /\ WorkflowStatus = "FAILED"
    /\ \E n, m \in DeclaredIds : RowStatus(n) = "COMPLETED" /\ RowStatus(m) = "FAILED"

\* C8: whenever a node of an accepted workflow fails, the stream contains exactly
\* one workflow_failed event, after that node's node_failed and before complete;
\* node_failed is emitted at most once per workflow.
C8_WorkflowFailedAfterNodeFailed ==
    /\ Count("node_failed") <= 1
    /\ (Accepted /\ Ended /\ Count("node_failed") >= 1) =>
          /\ Count("workflow_failed") = 1
          /\ \A i, j, k \in DOMAIN events :
                (/\ events[i].type = "node_failed"
                 /\ events[j].type = "workflow_failed"
                 /\ events[k].type = "complete") => (i < j /\ j < k)

\* C9: every node whose execution row reaches COMPLETED has exactly one
\* node_completed event in the stream, also when another node of its batch
\* fails, and no node has more than one.
C9_NodeCompletedPerSuccess ==
    /\ \A n \in NodeIds : CountFor("node_completed", n) <= 1
    /\ (Accepted /\ Ended) =>
          \A n \in DeclaredIds :
              RowStatus(n) = "COMPLETED" => CountFor("node_completed", n) = 1

ErrorMessage(row) == IF "error_message" \in DOMAIN row THEN row.error_message ELSE None

Recovered == server \in {"recovered", "serving"}

\* C11: once recover_from_last_session has run, every pipeline record and every
\* task record that the previous process left RUNNING has status PENDING and a
\* populated error_message, no record is left RUNNING, and no tool was executed.
C11_RecoveredPendingWithMessage ==
    Recovered =>
        /\ \A id \in TaskIds :
               /\ db_tasks[id].status # "RUNNING"
               /\ last_session.tasks[id].status = "RUNNING" =>
                      /\ db_tasks[id].status = "PENDING"
                      /\ ErrorMessage(db_tasks[id]) # None
        /\ \A id \in PipelineIds :
               /\ db_pipelines[id].status # "RUNNING"
               /\ last_session.pipelines[id].status = "RUNNING" =>
                      /\ db_pipelines[id].status = "PENDING"
                      /\ ErrorMessage(db_pipelines[id]) # None
        /\ calls = EmptyDict
        /\ tool_executions = EmptyDict

\* The register calls made for one tool name, and those of them that succeeded.
CallersOf(name) == {t \in DOMAIN threads : threads[t].cls.isBaseTool /\ threads[t].cls.name = name}

Succeeded(name) == {t \in CallersOf(name) : threads[t].outcome = "ok"}

\* The callers whose assignment to _tools has been executed.
Inserted(name) == {t \in CallersOf(name) : threads[t].pc \in {"print", "done"} /\
                                             threads[t].outcome # "already registered"}

\* C12: whatever the interleaving of concurrent register calls for one name, at
\* most one succeeds and, once all have returned, exactly one has; every other
\* call fails with the already-registered error, the name maps to the class of
\* the successful call, and every get_tool result is None or that class.
C12_ConcurrentRegister ==
    \A name \in {"load_dataset", "load_config"} :
        /\ Cardinality(Inserted(name)) <= 1
        /\ \A t \in CallersOf(name) :
               threads[t].pc = "done" => threads[t].outcome \in {"ok", "already registered"}
        /\ (CallersOf(name) # {} /\ \A t \in CallersOf(name) : threads[t].pc = "done") =>
               /\ Cardinality(Succeeded(name)) = 1
               /\ \A t \in Succeeded(name) : get_tool(name) = <<threads[t].cls>>
        /\ \A t \in Inserted(name) : get_tool(name) = <<threads[t].cls>>
        /\ Inserted(name) = {} => get_tool(name) = <<>>
        /\ \A i \in DOMAIN observed :
               observed[i].name = name =>
                   \/ observed[i].value = <<>>
                   \/ \E t \in Inserted(name) : observed[i].value = <<threads[t].cls>>

\* Three calls for load_dataset with two different classes have all returned,
\* and a lookup made meanwhile saw the registered class.
C12_Witness ==
    /\ Cardinality(CallersOf("load_dataset")) = NumThreads
    /\ \E t, u \in Threads : threads[t].cls # threads[u].cls
    /\ \A t \in Threads : threads[t].pc = "done"
    /\ \E i \in DOMAIN observed : observed[i].name = "load_dataset" /\ observed[i].value # <<>>
    /\ \E i \in DOMAIN observed : observed[i].name = "load_dataset" /\ observed[i].value = <<>>

\* Index of the batch that holds node n, 0 when no batch does.
BatchOf(n) ==
    IF \E b \in DOMAIN batches : InSeq(n, batches[b])
    THEN CHOOSE b \in DOMAIN batches : InSeq(n, batches[b])
    ELSE 0

\* C13: an input mapping 'u.f' -> x on node v (u another declared node, not
\* ordered after v by the explicit edges) orders v after u although no edge is
\* declared: v is planned in a later batch than u, and v has not been started
\* unless u has completed.
C13_MappingImpliesEdge ==
    \A k \in DOMAIN dag.nodes :
        \A m \in DOMAIN dag.nodes[k].input_mappings :
            LET v == dag.nodes[k].id
                u == dag.nodes[k].input_mappings[m][1][1]
            IN (u \in DeclaredIds /\ u # v /\ ~ReachIn(v, u, Len(dag.edges))) =>
                  /\ batches # <<>> => BatchOf(u) < BatchOf(v)
                  /\ v \in DOMAIN tool_executions => RowStatus(u) = "COMPLETED"

\* Node m runs in the current batch while another node of the batch has failed.
RunningBesideFailure(m) ==
    /\ pc = "gather"
    /\ m \in DOMAIN task
    /\ task[m] = "running"
    /\ \E n \in DOMAIN batch_results : n # m /\ batch_results[n].exc

\* C14: a node that is still running when a sibling of its batch has failed is
\* cancelled: its row stays RUNNING until it finalises as FAILED with the
\* cancellation error, and no row is RUNNING once workflow_failed or complete
\* is emitted.
C14_SiblingsCancelled ==
    /\ []((Count("workflow_failed") + Count("complete") > 0) =>
             \A n \in DOMAIN tool_executions : RowStatus(n) # "RUNNING")
    /\ [][\A m \in NodeIds :
             RunningBesideFailure(m) =>
                 \/ RowStatus(m)' = "RUNNING"
                 \/ /\ RowStatus(m)' = "FAILED"
                    /\ tool_executions'[m].error_message = "Cancelled"]_vars

\* The last two events of the stream are workflow_failed and complete.
EndsFailedComplete ==
    /\ Len(events) >= 2
    /\ events[Len(events) - 1].type = "workflow_failed"
    /\ events[Len(events)].type = "complete"

\* C15: when cancellation was signalled while nodes of a batch were running, no
\* batch after that one is dispatched, and the workflow ends FAILED with error
\* "cancelled", its stream ending with workflow_failed then complete.
C15_CancelStopsWorkflow ==
    (cancel.called /\ cancel.pc = "gather") =>
        /\ pc = "gather" => batch_idx = cancel.batch_idx
        /\ Ended =>
               /\ WorkflowStatus = "FAILED"
               /\ workflows[WorkflowId].error_message = "cancelled"
               /\ EndsFailedComplete

\* Some node of the workflow names a tool the registry does not hold.
HasUnknownTool == \E k \in DOMAIN dag.nodes : get_tool(dag.nodes[k].tool) = <<>>

\* C16: a workflow with a node whose tool is not registered is rejected at
\* validation: it is never persisted as RUNNING, no node of it is executed or
\* recorded, no start and no node event is emitted, and its stream is
\* workflow_failed then complete.
C16_UnknownToolRejected ==
    HasUnknownTool =>
        /\ WorkflowStatus # "RUNNING"
        /\ calls = EmptyDict
        /\ tool_executions = EmptyDict
        /\ Count("start") = 0
        /\ \A i \in DOMAIN events : ~IsNodeEvent(events[i])
        /\ Ended => [i \in DOMAIN events |-> events[i].type] = <<"workflow_failed", "complete">>

\* The node ids named by the edges, and by the input mappings.
EdgeIds == UNION {{dag.edges[i][1], dag.edges[i][2]} : i \in DOMAIN dag.edges}

MappingIds ==
    UNION {{dag.nodes[k].input_mappings[m][1][1] : m \in DOMAIN dag.nodes[k].input_mappings} :
              k \in DOMAIN dag.nodes}

\* C17: a workflow in which an edge or an input mapping names a node id that is
\* not declared in nodes is rejected: no node is executed or recorded, and the
\* stream carries workflow_failed.
C17_UnknownNodeRejected ==
    ~((EdgeIds \cup MappingIds) \subseteq DeclaredIds) =>
        /\ calls = EmptyDict
        /\ tool_executions = EmptyDict
        /\ Ended => Count("workflow_failed") = 1

\* Two entries of nodes carry the same id.
HasDuplicateIds == \E i, j \in DOMAIN dag.nodes : i # j /\ dag.nodes[i].id = dag.nodes[j].id

\* C18: a workflow that declares two nodes with the same id is rejected: no
\* definition of any node is executed or recorded, the workflow never
\* completes, and its stream carries workflow_failed.
C18_DuplicateIdsRejected ==
    HasDuplicateIds =>
        /\ calls = EmptyDict
        /\ tool_executions = EmptyDict
        /\ WorkflowStatus # "COMPLETED"
        /\ Ended => Count("workflow_failed") = 1

\* b is reached from a along 1..k declared-dependency links of the registry.
RECURSIVE DepReach(_, _, _, _)
DepReach(reg, a, b, k) ==
    /\ k > 0
    /\ a \in DOMAIN reg
    /\ \/ InSeq(b, reg[a].dependencies)
       \/ \E c \in Range(reg[a].dependencies) : DepReach(reg, c, b, k - 1)

DepsReachable(reg, root) == {n \in DepNames : DepReach(reg, root, n, Cardinality(DepNames))}

DepCycle(reg, root) ==
    \E n \in {root} \cup DepsReachable(reg, root) : DepReach(reg, n, n, Cardinality(DepNames))

DepMissing(reg, root) == \E n \in DepsReachable(reg, root) : n \notin DOMAIN reg

\* C19: in pipeline mode, for a registered task with dependencies,
\* get_combined_input_schema raises whenever the dependency graph reachable from
\* the task contains a cycle and whenever a dependency, direct or transitive, is
\* not registered.
C19_CycleOrMissingRaises ==
    (/\ combinedCall.called
     /\ combinedCall.as_pipeline
     /\ combinedCall.task_name \in DOMAIN _tasks
     /\ _tasks[combinedCall.task_name].dependencies # <<>>
     /\ \/ DepCycle(_tasks, combinedCall.task_name)
        \/ DepMissing(_tasks, combinedCall.task_name))
    => ~combinedCall.ok

\* The properties the dependencies of cls supply: the values of their output mappings.
SuppliedBy(reg, cls) ==
    UNION {MappingValues(reg[cls.dependencies[i]]) :
              i \in {j \in DOMAIN cls.dependencies : cls.dependencies[j] \in DOMAIN reg}}

\* C20: for a registered task with dependencies, the combined schema in
\* pipeline mode holds every input property of the dependencies and of the task
\* itself that no dependency supplies, and none that a dependency supplies;
\* with as_pipeline=False the result is the task's own input schema.
C20_CombinedSchemaOfTask ==
    (combinedCall.called /\ combinedCall.task_name \in DOMAIN ExampleRegistry) =>
        LET cls == ExampleRegistry[combinedCall.task_name]
            supplied == SuppliedBy(ExampleRegistry, cls)
            names == PropNames(combinedCall.properties)
        IN /\ ~combinedCall.as_pipeline =>
                  /\ combinedCall.ok
                  /\ combinedCall.properties = InputSchema(cls).properties
                  /\ combinedCall.required = cls.required
           /\ (combinedCall.as_pipeline /\ cls.dependencies # <<>>) =>
                  /\ combinedCall.ok
                  /\ names \cap supplied = {}
                  /\ Range(cls.properties) \ supplied \subseteq names
                  /\ \A i \in DOMAIN cls.dependencies :
                         Range(ExampleRegistry[cls.dependencies[i]].properties) \ supplied
                             \subseteq names


\* C21: the schema get_pipeline_schema returns holds every input property of a
\* task of the list that no other task of the list produces through its output
\* mappings, and a property declared by several tasks carries the schema of the
\* first of them in list order.
C21_PipelineSchemaComplete ==
    (schemaCall.called /\ schemaCall.result.ok) =>
        LET names == schemaCall.task_names
            props == schemaCall.result.properties
        IN /\ \A i \in DOMAIN names :
                  \A p \in Range(TaskClass(names[i]).properties) :
                      (\A j \in DOMAIN names :
                           names[j] # names[i] => p \notin MappingValues(TaskClass(names[j])))
                      => p \in PropNames(props)
           /\ \A k \in DOMAIN props :
                  \E i \in DOMAIN names :
                      /\ props[k].schema = names[i]
                      /\ InSeq(props[k].name, TaskClass(names[i]).properties)
                      /\ \A j \in 1..(i - 1) :
                             ~InSeq(props[k].name, TaskClass(names[j]).properties)


\* The predecessors of node n: the sources of the edges into it.
Preds(n) == {dag.edges[i][1] : i \in {j \in DOMAIN dag.edges : dag.edges[j][2] = n}}

\* The edge list without its repeated entries, first occurrences in order.
RECURSIVE DistinctEdges(_, _, _)
DistinctEdges(edges, i, acc) ==
    IF i > Len(edges) THEN acc
    ELSE DistinctEdges(edges, i + 1, IF InSeq(edges[i], acc) THEN acc ELSE Append(acc, edges[i]))

\* C22 as stated: for an acyclic dag, repeating an edge does not change what
\* _topological_sort returns.
C22_Original ==
    (pc = "sorted" /\ error = None) =>
        batches = _topological_sort([dag EXCEPT !.edges = DistinctEdges(dag.edges, 1, <<>>)]).batches

\* C22: for an acyclic dag, the batches _topological_sort returns hold every
\* declared node exactly once, the first batch is the nodes without
\* predecessors, every other node sits in the batch right after the last of its
\* predecessors, and repeating an edge does not change which nodes each batch
\* holds (the order of the nodes inside a batch can change).
C22_LayeredBatches ==
    (pc = "sorted" /\ error = None) =>
        /\ \A n \in DeclaredIds :
               Cardinality({bi \in {<<b, i>> : b \in DOMAIN batches, i \in 1..Cardinality(DeclaredIds)} :
                               bi[2] \in DOMAIN batches[bi[1]] /\ batches[bi[1]][bi[2]] = n}) = 1
        /\ \A b \in DOMAIN batches : Range(batches[b]) \subseteq DeclaredIds /\ batches[b] # <<>>
        /\ \A n \in DeclaredIds : (BatchOf(n) = 1) <=> (Preds(n) = {})
        /\ \A n \in DeclaredIds :
               Preds(n) # {} =>
                   /\ \A u \in Preds(n) : BatchOf(u) < BatchOf(n)
                   /\ \E u \in Preds(n) : BatchOf(u) = BatchOf(n) - 1
        /\ LET once == _topological_sort([dag EXCEPT !.edges = DistinctEdges(dag.edges, 1, <<>>)])
           IN /\ once.ok
              /\ Len(once.batches) = Len(batches)
              /\ \A b \in DOMAIN batches : Range(once.batches[b]) = Range(batches[b])

\* The diamond a -> b, a -> c, b -> d, c -> d is sorted into <<a>>, <<b, c>>, <<d>>.
C22_Witness ==
    /\ pc = "sorted"
    /\ error = None
    /\ Range(dag.edges) = {<<"a", "b">>, <<"a", "c">>, <<"b", "d">>, <<"c", "d">>}
    /\ batches = <<<<"a">>, <<"b", "c">>, <<"d">>>>


\* C23: a node v whose mapping 'u.f' -> x cannot be resolved when v is dispatched
\* (u has produced no outputs, or its outputs lack f) fails before its tool is
\* invoked: the tool of v is never called with x missing or with the literal of
\* the submitted inputs in its place, so every call of v's tool carries under x
\* the value u returned under f.
C23_UnresolvedMappingFailsNode ==
    \A k \in DOMAIN dag.nodes :
        \A m \in DOMAIN dag.nodes[k].input_mappings :
            LET v == dag.nodes[k].id
                u == dag.nodes[k].input_mappings[m][1][1]
                f == dag.nodes[k].input_mappings[m][1][2]
                x == dag.nodes[k].input_mappings[m][2]
            IN v \in DOMAIN calls =>
                  /\ x \in DOMAIN calls[v]
                  /\ calls[v][x] # Literal
                  /\ u \in DOMAIN tool_executions
                  /\ f \in DOMAIN tool_executions[u].outputs
                  /\ calls[v][x] = tool_executions[u].outputs[f]


\* C24: after a node of batch k has failed, no node of a later batch is started:
\* it gets no execution row, its tool is not called and no event names it.
C24_NoLaterBatchAfterFailure ==
    \A n \in DOMAIN tool_executions : \A m \in DeclaredIds :
        (RowStatus(n) = "FAILED" /\ BatchOf(n) > 0 /\ BatchOf(m) > BatchOf(n)) =>
            /\ m \notin DOMAIN tool_executions
            /\ m \notin DOMAIN calls
            /\ \A e \in DOMAIN events : events[e].node_id # m

C24_Witness ==
    /\ Ended
    /\ \E n, m \in DeclaredIds :
          /\ RowStatus(n) = "FAILED"
          /\ BatchOf(n) = 1
          /\ BatchOf(m) = 2
          /\ m \notin DOMAIN tool_executions
          /\ \E e \in DOMAIN events : events[e].type = "node_failed" /\ events[e].node_id = n


\* C25: a node of a workflow has at most one execution row; the row is created
\* RUNNING when the node is dispatched, a node that has a row is never dispatched
\* again, and the row moves from RUNNING to exactly one of COMPLETED and FAILED,
\* after which it never changes.
C25_OneRowPerNode ==
    [][\A n \in NodeIds :
          /\ (n \notin DOMAIN tool_executions /\ n \in DOMAIN tool_executions') =>
                /\ tool_executions'[n].status = "RUNNING"
                /\ n \in DOMAIN task /\ task[n] = "pending" /\ task'[n] = "running"
          /\ (n \in DOMAIN task /\ n \in DOMAIN task' /\ task[n] = "pending" /\ task'[n] = "running") =>
                n \notin DOMAIN tool_executions
          /\ n \in DOMAIN tool_executions =>
                /\ n \in DOMAIN tool_executions'
                /\ \/ tool_executions'[n] = tool_executions[n]
                   \/ /\ tool_executions[n].status = "RUNNING"
                      /\ tool_executions'[n].status \in {"COMPLETED", "FAILED"}
                      /\ tool_executions'[n].workflow_id = tool_executions[n].workflow_id
                      /\ tool_executions'[n].tool_name = tool_executions[n].tool_name
                      /\ tool_executions'[n].inputs = tool_executions[n].inputs]_vars

C25_Witness ==
    /\ pc = "exhausted"
    /\ Cardinality(DOMAIN tool_executions) = 3
    /\ \E n, m \in DOMAIN tool_executions :
          /\ BatchOf(n) < BatchOf(m)
          /\ RowStatus(n) = "COMPLETED"
          /\ RowStatus(m) = "FAILED"


\* C26: a node's node_completed or node_failed event is emitted only after the
\* node's execution row is committed in its terminal status: whoever has seen the
\* event finds the row COMPLETED (node_completed) or FAILED (node_failed), never
\* RUNNING.
C26_EventAfterRowCommitted ==
    \A e \in DOMAIN events :
        /\ events[e].type = "node_completed" =>
              /\ RowStatus(events[e].node_id) = "COMPLETED"
              /\ tool_executions[events[e].node_id].outputs = events[e].data.result
        /\ events[e].type = "node_failed" => RowStatus(events[e].node_id) = "FAILED"

C26_Witness ==
    /\ \E e \in DOMAIN events :
          events[e].type = "node_completed" /\ RowStatus(events[e].node_id) = "COMPLETED"
    /\ \E e \in DOMAIN events :
          events[e].type = "node_failed" /\ RowStatus(events[e].node_id) = "FAILED"
    /\ \E n \in DOMAIN tool_executions : \A e \in DOMAIN events : events[e].node_id # n


\* C27: executing a workflow leaves the submitted dag unchanged: in every state
\* after the workflow row was persisted, each node's literal inputs in the dag
\* object equal the inputs that were submitted (the dag stored in the row);
\* mapped values are never written into the dag.
C27_DagUnchanged ==
    WorkflowId \in DOMAIN workflows =>
        \A k \in DOMAIN dag.nodes :
            dag.nodes[k].inputs = workflows[WorkflowId].workflow_dag.nodes[k].inputs


\* C28: the registry is initialised once: however the threads that construct
\* ToolRegistry() or call get_tool_registry() interleave with register calls, one
\* instance exists and every caller holds it, and a tool whose register call
\* succeeded is in the registry's tool map from then on.
C28_InitialisedOnce ==
    /\ Len(objects) <= 1
    /\ \A t \in DOMAIN callers : callers[t].self # 0 => callers[t].self = _instance
    /\ _registry # 0 => _registry = _instance
    /\ \A t \in DOMAIN callers :
          callers[t].outcome = "ok" =>
              IsRegistered(objects[_instance]._tools, callers[t].cls.name)


\* C29: a workflow row persisted as RUNNING eventually becomes COMPLETED or
\* FAILED when every tool invocation terminates and the store is available, also
\* when the client stops reading the stream after start or after a node event.
C29_RunningRowTerminates ==
    (WorkflowStatus = "RUNNING") ~> (WorkflowStatus \in {"COMPLETED", "FAILED"})


\* C30: whenever the workflow row is COMPLETED or FAILED none of the workflow's
\* node rows is RUNNING; and when it is COMPLETED every declared node has a
\* COMPLETED row and the persisted results map has exactly one entry per node,
\* equal to the outputs in that node's row.
C30_TerminalWorkflowRows ==
    /\ WorkflowStatus \in {"COMPLETED", "FAILED"} =>
          \A n \in DOMAIN tool_executions : RowStatus(n) # "RUNNING"
    /\ WorkflowStatus = "COMPLETED" =>
          /\ \A n \in DeclaredIds : RowStatus(n) = "COMPLETED"
          /\ DOMAIN workflows[WorkflowId].results = DeclaredIds
          /\ \A n \in DeclaredIds :
                workflows[WorkflowId].results[n] = tool_executions[n].outputs

C30_Witness ==
    /\ WorkflowStatus = "COMPLETED"
    /\ Cardinality(DeclaredIds) = 3
    /\ Len(batches) = 2
    /\ DOMAIN workflows[WorkflowId].results = DeclaredIds

=============================================================================
